---- MODULE Spec2Model ----
(***************************************************************************)
(* Tightrope walker: the step-based Character controller, the Physics      *)
(* collaborator, the GameState machine and the Game frame loop.            *)
(*                                                                         *)
(* Fixed-point units (JavaScript numbers are modelled as scaled integers,  *)
(* every product rounded to the nearest unit):                             *)
(*   time                      milliseconds                                *)
(*   balance, forces, random   thousandths            (1.0 = 1000)         *)
(*   balanceDifficulty         thousandths            (1.0 = 1000)         *)
(*   rope position             ten-thousandths        (1.0 = 10000)        *)
(*   platform coordinates      centimetres            (1.0 = 100)          *)
(*   facingDirection           milliradians                                *)
(*   footstepCycle             thousandths                                 *)
(*   sines, cosines, dot products of unit vectors: thousandths             *)
(***************************************************************************)
EXTENDS Integers, Sequences, FiniteSets, TLC

VARIABLES character, physics, gameState, ui

vars == <<character, physics, gameState, ui>>

(***************************************************************************)
(* Program constants, in model units.                                      *)
(***************************************************************************)
balanceThreshold == 800
physicsRecoveryRate == 100
windChangeFrequency == 3000
maxWindForce == 500
charWidth == 50
stepDistance == 300
stepTime == 500
movementBalanceEffect == 100
balanceNoiseInterval == 500
balanceNoiseMagnitude == 10
maxBalanceDifficulty == 4000
balanceRecoveryRate == 700
platformSpeed == 200
platformRotationSpeed == 2000
nearRopeDistance == 200
platformRadius == 800
platformHeight == 200
ropeThickness == 30
mountainDistance == 10000
mountainHeight == 10000
EndThreshold == 9800
Pi == 3142
TwoPi == 6283

(***************************************************************************)
(* Arithmetic helpers.                                                     *)
(***************************************************************************)
Abs(a) == IF a < 0 THEN -a ELSE a

Sign(a) == IF a > 0 THEN 1 ELSE IF a < 0 THEN -1 ELSE 0

Min(a, b) == IF a < b THEN a ELSE b

Max(a, b) == IF a > b THEN a ELSE b

\* a / b rounded to the nearest integer (b > 0), halves away from zero
RDiv(a, b) == IF a >= 0 THEN (2 * a + b) \div (2 * b)
              ELSE -((2 * (-a) + b) \div (2 * b))

RECURSIVE SqrtIter(_, _, _)
SqrtIter(n, lo, hi) ==
    IF lo >= hi THEN lo
    ELSE LET mid == (lo + hi + 1) \div 2
         IN  IF mid * mid <= n THEN SqrtIter(n, mid, hi)
             ELSE SqrtIter(n, lo, mid - 1)

\* floor of the square root of n, 0 <= n < 2^30
Isqrt(n) == SqrtIter(n, 0, 32767)

\* sqrt(n), rounded to the nearest integer
Rsqrt(n) == LET s == Isqrt(n) IN IF n - s * s > s THEN s + 1 ELSE s

\* Math.sin on [0, Pi] in thousandths (Bhaskara's rational approximation,
\* within 0.002 of the sine)
SinHalf(x) == LET p == x * (Pi - x)
              IN  RDiv(16 * p, (5 * Pi * Pi - 4 * p) \div 1000)

\* Math.sin of an angle in milliradians, in thousandths
Sin(a) == LET x == a % TwoPi
          IN  IF x <= Pi THEN SinHalf(x) ELSE -SinHalf(x - Pi)

\* Math.cos(a) = Math.sin(a + Pi/2)
Cos(a) == Sin(a + Pi \div 2)

(***************************************************************************)
(* Environment anchors (Environment.createMountainTop, createRope).        *)
(***************************************************************************)
startPlatformPosition ==
    [x |-> 0, y |-> mountainHeight \div 2, z |-> mountainDistance]

endPlatformPosition ==
    [x |-> 0, y |-> mountainHeight \div 2, z |-> -mountainDistance]

\* rope.geometry.parameters.path.getPointAt(0)
ropeStartPoint ==
    [x |-> startPlatformPosition.x,
     y |-> startPlatformPosition.y + platformHeight \div 2 + ropeThickness \div 2,
     z |-> startPlatformPosition.z - platformRadius]

\* rope.geometry.parameters.path.getPointAt(1)
ropeEndPoint ==
    [x |-> endPlatformPosition.x,
     y |-> endPlatformPosition.y + platformHeight \div 2 + ropeThickness \div 2,
     z |-> endPlatformPosition.z + platformRadius]

ZeroVector == [x |-> 0, y |-> 0, z |-> 0]

\* THREE.Vector3.distanceTo, squared (cm^2)
DistSq(p, q) == (p.x - q.x) * (p.x - q.x) + (p.y - q.y) * (p.y - q.y)
                + (p.z - q.z) * (p.z - q.z)

\* THREE.Vector3.distanceTo (cm)
Dist(p, q) == Rsqrt(DistSq(p, q))

\* (to - from).normalize(), components in thousandths
UnitVector(from, to) ==
    LET d == Dist(from, to)
    IN  IF d = 0 THEN ZeroVector
        ELSE [x |-> RDiv(1000 * (to.x - from.x), d),
              y |-> RDiv(1000 * (to.y - from.y), d),
              z |-> RDiv(1000 * (to.z - from.z), d)]

\* Math.atan2(v.x, v.z) for the two look directions the program uses, both
\* along the z axis: 0 towards +z, Pi towards -z
Atan2XZ(v) == IF v.z < 0 THEN Pi ELSE 0

(***************************************************************************)
(* Character: construction.                                                *)
(***************************************************************************)
NoMovement == [forward |-> FALSE, backward |-> FALSE, left |-> FALSE,
               right |-> FALSE, rotateLeft |-> FALSE, rotateRight |-> FALSE]

\* the fields set by the constructor.  rope tells whether the rope mesh was
\* passed; environment is "missing" when none was passed, "unloaded" when it
\* has no platform positions yet and "loaded" when it has; error tells
\* whether a call has thrown
NewCharacter ==
    [balance |-> 0, speed |-> 0, position |-> 0, state |-> "IDLE",
     isOnPlatform |-> TRUE, balanceForce |-> 0,
     isMovingForward |-> FALSE, takingStep |-> FALSE, stepTimer |-> 0,
     stepStartPosition |-> 0, stepTargetPosition |-> 0,
     windEffect |-> 0, balanceNoiseTimer |-> 0,
     balanceDifficulty |-> 1000, totalStepsTaken |-> 0,
     platformMovement |-> NoMovement, platformPosition |-> ZeroVector,
     facingDirection |-> 0, onRopeEdge |-> FALSE, nearRope |-> FALSE,
     poleHoldMode |-> "ONE_HAND", footstepCycle |-> 0,
     rope |-> TRUE, environment |-> "loaded", error |-> FALSE]

(***************************************************************************)
(* Character: steps on the rope.                                           *)
(***************************************************************************)
\* easeInOutQuad with the two branches exchanged
easeInOutQuadExchanged(t) ==
    IF t < 500 THEN 1000 - RDiv((2000 - 2 * t) * (2000 - 2 * t), 2000)
    ELSE RDiv(2 * t * t, 1000)

\* easeInOutQuad on thousandths
easeInOutQuad(t) ==
    IF t < 500 THEN RDiv(2 * t * t, 1000)
    ELSE 1000 - RDiv((2000 - 2 * t) * (2000 - 2 * t), 2000)

\* startNewStep with a step of twice the stepDistance
startNewStepLong(c, r) ==
    LET stepDisturbance == movementBalanceEffect * c.balanceDifficulty
        randomDirection == r - 500 + RDiv(c.windEffect * 200, 1000)
        steps == c.totalStepsTaken + 1
        targetDifficulty ==
            1000 + Min(maxBalanceDifficulty - 1000,
                       RDiv(steps * (maxBalanceDifficulty - 1000), 20))
    IN  [c EXCEPT
            !.takingStep = TRUE,
            !.stepTimer = 0,
            !.stepStartPosition = c.position,
            !.stepTargetPosition = Min(10000, c.position + 2 * stepDistance),
            !.state = "WALKING",
            !.balance = c.balance + RDiv(stepDisturbance * randomDirection, 1000000),
            !.totalStepsTaken = steps,
            !.balanceDifficulty =
                IF steps > 5
                THEN Min(c.balanceDifficulty + 200, targetDifficulty)
                ELSE c.balanceDifficulty]

\* startNewStep that sets the difficulty to its target at once
startNewStepSnapping(c, r) ==
    LET stepDisturbance == movementBalanceEffect * c.balanceDifficulty
        randomDirection == r - 500 + RDiv(c.windEffect * 200, 1000)
        steps == c.totalStepsTaken + 1
        targetDifficulty ==
            1000 + Min(maxBalanceDifficulty - 1000,
                       RDiv(steps * (maxBalanceDifficulty - 1000), 20))
    IN  [c EXCEPT
            !.takingStep = TRUE,
            !.stepTimer = 0,
            !.stepStartPosition = c.position,
            !.stepTargetPosition = Min(10000, c.position + stepDistance),
            !.state = "WALKING",
            !.balance = c.balance + RDiv(stepDisturbance * randomDirection, 1000000),
            !.totalStepsTaken = steps,
            !.balanceDifficulty =
                IF steps > 5 THEN targetDifficulty ELSE c.balanceDifficulty]

\* startNewStep without the increment of totalStepsTaken
startNewStepUncounted(c, r) ==
    LET stepDisturbance == movementBalanceEffect * c.balanceDifficulty
        randomDirection == r - 500 + RDiv(c.windEffect * 200, 1000)
    IN  [c EXCEPT
            !.takingStep = TRUE,
            !.stepTimer = 0,
            !.stepStartPosition = c.position,
            !.stepTargetPosition = Min(10000, c.position + stepDistance),
            !.state = "WALKING",
            !.balance = c.balance + RDiv(stepDisturbance * randomDirection, 1000000)]

\* startNewStep(); r is the Math.random() draw
startNewStep(c, r) ==
    LET stepDisturbance == movementBalanceEffect * c.balanceDifficulty
        randomDirection == r - 500 + RDiv(c.windEffect * 200, 1000)
        steps == c.totalStepsTaken + 1
        targetDifficulty ==
            1000 + Min(maxBalanceDifficulty - 1000,
                       RDiv(steps * (maxBalanceDifficulty - 1000), 20))
    IN  [c EXCEPT
            !.takingStep = TRUE,
            !.stepTimer = 0,
            !.stepStartPosition = c.position,
            !.stepTargetPosition = Min(10000, c.position + stepDistance),
            !.state = "WALKING",
            !.balance = c.balance + RDiv(stepDisturbance * randomDirection, 1000000),
            !.totalStepsTaken = steps,
            !.balanceDifficulty =
                IF steps > 5
                THEN Min(c.balanceDifficulty + 200, targetDifficulty)
                ELSE c.balanceDifficulty]

\* updateState with the 0.3 limit the idle branch of update() uses
updateStateAtThree(c) ==
    IF c.isOnPlatform THEN c
    ELSE IF c.state = "FALLING" THEN c
    ELSE IF c.takingStep THEN [c EXCEPT !.state = "WALKING"]
    ELSE IF Abs(c.balance) > 900 THEN [c EXCEPT !.state = "FALLING"]
    ELSE IF Abs(c.balance) > 300 THEN [c EXCEPT !.state = "BALANCING"]
    ELSE [c EXCEPT !.state = "IDLE"]

\* updateState()
updateState(c) ==
    IF c.isOnPlatform THEN c
    ELSE IF c.state = "FALLING" THEN c
    ELSE IF c.takingStep THEN [c EXCEPT !.state = "WALKING"]
    ELSE IF Abs(c.balance) > 900 THEN [c EXCEPT !.state = "FALLING"]
    ELSE IF Abs(c.balance) > 500 THEN [c EXCEPT !.state = "BALANCING"]
    ELSE [c EXCEPT !.state = "IDLE"]

\* transitionToEndPlatform without the reset of the step count and the difficulty
transitionToEndPlatformCounting(c) ==
    LET dirToCenter == UnitVector(ropeEndPoint, endPlatformPosition)
    IN  [c EXCEPT
            !.isOnPlatform = TRUE,
            !.platformPosition =
                [x |-> endPlatformPosition.x + RDiv(dirToCenter.x * charWidth, 1000),
                 y |-> endPlatformPosition.y + RDiv(dirToCenter.y * charWidth, 1000),
                 z |-> endPlatformPosition.z + RDiv(dirToCenter.z * charWidth, 1000)],
            !.facingDirection = Atan2XZ(dirToCenter),
            !.position = 10000,
            !.balance = 0,
            !.state = "IDLE",
            !.balanceForce = 0,
            !.isMovingForward = FALSE,
            !.takingStep = FALSE]

\* transitionToEndPlatform without the reset of the balance
transitionToEndPlatformLeaning(c) ==
    LET dirToCenter == UnitVector(ropeEndPoint, endPlatformPosition)
    IN  [c EXCEPT
            !.isOnPlatform = TRUE,
            !.platformPosition =
                [x |-> endPlatformPosition.x + RDiv(dirToCenter.x * charWidth, 1000),
                 y |-> endPlatformPosition.y + RDiv(dirToCenter.y * charWidth, 1000),
                 z |-> endPlatformPosition.z + RDiv(dirToCenter.z * charWidth, 1000)],
            !.facingDirection = Atan2XZ(dirToCenter),
            !.position = 10000,
            !.state = "IDLE",
            !.balanceForce = 0,
            !.isMovingForward = FALSE,
            !.takingStep = FALSE,
            !.totalStepsTaken = 0,
            !.balanceDifficulty = 1000]

\* transitionToEndPlatform()
transitionToEndPlatform(c) ==
    LET dirToCenter == UnitVector(ropeEndPoint, endPlatformPosition)
    IN  [c EXCEPT
            !.isOnPlatform = TRUE,
            !.platformPosition =
                [x |-> endPlatformPosition.x + RDiv(dirToCenter.x * charWidth, 1000),
                 y |-> endPlatformPosition.y + RDiv(dirToCenter.y * charWidth, 1000),
                 z |-> endPlatformPosition.z + RDiv(dirToCenter.z * charWidth, 1000)],
            !.facingDirection = Atan2XZ(dirToCenter),
            !.position = 10000,
            !.balance = 0,
            !.state = "IDLE",
            !.balanceForce = 0,
            !.isMovingForward = FALSE,
            !.takingStep = FALSE,
            !.totalStepsTaken = 0,
            !.balanceDifficulty = 1000]

\* advanceStep that leaves the step in flight where it is
advanceStepFrozen(c, dt, rs, rw) == c

\* advanceStep that leaves the start of the next step to the next update
advanceStepDeferring(c, dt, rs, rw) ==
    LET timer == c.stepTimer + dt
        stepProgress == Min(1000, RDiv(timer * 1000, stepTime))
        easedProgress == easeInOutQuad(stepProgress)
        pos == c.stepStartPosition
               + RDiv((c.stepTargetPosition - c.stepStartPosition) * easedProgress, 1000)
        c1 == [c EXCEPT !.stepTimer = timer, !.position = pos]
    IN  IF stepProgress >= 1000
        THEN [c1 EXCEPT !.takingStep = FALSE, !.state = "BALANCING"]
        ELSE c1

\* update(): the step in flight advances by dt (lines 982-1013)
advanceStep(c, dt, rs, rw) ==
    LET timer == c.stepTimer + dt
        stepProgress == Min(1000, RDiv(timer * 1000, stepTime))
        easedProgress == easeInOutQuad(stepProgress)
        pos == c.stepStartPosition
               + RDiv((c.stepTargetPosition - c.stepStartPosition) * easedProgress, 1000)
        c1 == [c EXCEPT !.stepTimer = timer, !.position = pos]
        c2 == IF stepProgress >= 1000
              THEN LET done == [c1 EXCEPT !.takingStep = FALSE]
                       nxt == IF done.isMovingForward /\ done.position < EndThreshold
                              THEN startNewStep(done, rs)
                              ELSE [done EXCEPT !.state = "BALANCING"]
                   IN  IF nxt.totalStepsTaken > 10
                       THEN [nxt EXCEPT !.balance =
                               nxt.balance
                               + RDiv((rw - 500) * 30 * nxt.balanceDifficulty, 1000000)]
                       ELSE nxt
              ELSE c1
    IN  c2

\* standStill whose recovery has no dead band
standStillToZero(c, dt, rs) ==
    LET c1 == IF c.isMovingForward /\ c.position < EndThreshold
              THEN startNewStep(c, rs) ELSE c
        c2 == IF c1.balance # 0
              THEN [c1 EXCEPT !.balance =
                      c1.balance - Sign(c1.balance) * RDiv(balanceRecoveryRate * dt, 1000)]
              ELSE c1
        c3 == IF ~c2.takingStep /\ c2.stepTimer > 2000
              THEN [c2 EXCEPT !.balanceDifficulty =
                      Max(1000, c2.balanceDifficulty - RDiv(dt * 300, 1000))]
              ELSE c2
    IN  [c3 EXCEPT !.state = IF Abs(c3.balance) > 300 THEN "BALANCING" ELSE "IDLE"]

\* update(): no step in flight (lines 1014-1039)
standStill(c, dt, rs) ==
    LET c1 == IF c.isMovingForward /\ c.position < EndThreshold
              THEN startNewStep(c, rs) ELSE c
        c2 == IF Abs(c1.balance) > 100
              THEN [c1 EXCEPT !.balance =
                      c1.balance - Sign(c1.balance) * RDiv(balanceRecoveryRate * dt, 1000)]
              ELSE c1
        c3 == IF ~c2.takingStep /\ c2.stepTimer > 2000
              THEN [c2 EXCEPT !.balanceDifficulty =
                      Max(1000, c2.balanceDifficulty - RDiv(dt * 300, 1000))]
              ELSE c2
    IN  [c3 EXCEPT !.state = IF Abs(c3.balance) > 300 THEN "BALANCING" ELSE "IDLE"]

\* integrateBalance without the clamp of line 1064
integrateBalanceUnclamped(c, dt, rn) ==
    LET timer == c.balanceNoiseTimer + dt
        fires == timer >= balanceNoiseInterval
        noise == IF fires
                 THEN RDiv((rn - 500) * balanceNoiseMagnitude * c.balanceDifficulty
                           + c.windEffect * 4 * c.balanceDifficulty, 1000000)
                 ELSE 0
        player == RDiv(c.balanceForce * dt * 20000,
                       6 * Rsqrt(c.balanceDifficulty * 1000))
        wind == RDiv(RDiv(c.windEffect * dt * 3, 10) * c.balanceDifficulty, 1000000)
    IN  [c EXCEPT !.balanceNoiseTimer = IF fires THEN 0 ELSE timer,
                  !.balance = c.balance + noise + player + wind]

\* update(): periodic noise, player force, wind, clamp (lines 1041-1064)
integrateBalance(c, dt, rn) ==
    LET timer == c.balanceNoiseTimer + dt
        fires == timer >= balanceNoiseInterval
        noise == IF fires
                 THEN RDiv((rn - 500) * balanceNoiseMagnitude * c.balanceDifficulty
                           + c.windEffect * 4 * c.balanceDifficulty, 1000000)
                 ELSE 0
        player == RDiv(c.balanceForce * dt * 20000,
                       6 * Rsqrt(c.balanceDifficulty * 1000))
        wind == RDiv(RDiv(c.windEffect * dt * 3, 10) * c.balanceDifficulty, 1000000)
        b == c.balance + noise + player + wind
    IN  [c EXCEPT !.balanceNoiseTimer = IF fires THEN 0 ELSE timer,
                  !.balance = Max(-1000, Min(1000, b))]

\* updateOnRope that takes the no-step branch even with a step in flight
updateOnRopeRestarting(c, dt, rs, rw, rn) ==
    LET c1 == standStill(c, dt, rs)
        c2 == updateState(integrateBalance(c1, dt, rn))
        c3 == IF ~c2.takingStep THEN [c2 EXCEPT !.stepTimer = c2.stepTimer + dt]
              ELSE c2
    IN  IF c3.position >= EndThreshold THEN transitionToEndPlatform(c3) ELSE c3

\* updateOnRope without the end-platform check of lines 1077-1080
updateOnRopeStaying(c, dt, rs, rw, rn) ==
    LET c1 == IF c.takingStep THEN advanceStep(c, dt, rs, rw)
              ELSE standStill(c, dt, rs)
        c2 == updateState(integrateBalance(c1, dt, rn))
    IN  IF ~c2.takingStep THEN [c2 EXCEPT !.stepTimer = c2.stepTimer + dt]
        ELSE c2

\* update() while on the rope (lines 981-1081)
updateOnRope(c, dt, rs, rw, rn) ==
    LET c1 == IF c.takingStep THEN advanceStep(c, dt, rs, rw)
              ELSE standStill(c, dt, rs)
        c2 == updateState(integrateBalance(c1, dt, rn))
        c3 == IF ~c2.takingStep THEN [c2 EXCEPT !.stepTimer = c2.stepTimer + dt]
              ELSE c2
    IN  IF c3.position >= EndThreshold THEN transitionToEndPlatform(c3) ELSE c3

(***************************************************************************)
(* Character: platform geometry and the platform/rope transitions.         *)
(***************************************************************************)
\* transitionToRope that starts a step only when none is marked in flight
transitionToRopeGuarded(c, r) ==
    LET c1 == [c EXCEPT
                 !.poleHoldMode = "TWO_HAND",
                 !.isOnPlatform = FALSE,
                 !.position = 0,
                 !.balance = 0,
                 !.state = "WALKING",
                 !.platformMovement = NoMovement,
                 !.isMovingForward = TRUE,
                 !.footstepCycle = 0]
    IN  IF c.takingStep THEN c1 ELSE startNewStep(c1, r)

\* transitionToRope without the reset of the platform movement flags
transitionToRopeKeepingFlags(c, r) ==
    startNewStep([c EXCEPT
                     !.poleHoldMode = "TWO_HAND",
                     !.isOnPlatform = FALSE,
                     !.position = 0,
                     !.balance = 0,
                     !.state = "WALKING",
                     !.isMovingForward = TRUE,
                     !.footstepCycle = 0], r)

\* transitionToRope(); r is the draw of the step it starts
transitionToRope(c, r) ==
    startNewStep([c EXCEPT
                     !.poleHoldMode = "TWO_HAND",
                     !.isOnPlatform = FALSE,
                     !.position = 0,
                     !.balance = 0,
                     !.state = "WALKING",
                     !.platformMovement = NoMovement,
                     !.isMovingForward = TRUE,
                     !.footstepCycle = 0], r)

\* facingVector.dot(toRope) of checkRopeProximity, in thousandths
FacingDot(c) ==
    LET toRope == UnitVector(c.platformPosition, ropeStartPoint)
    IN  RDiv(Sin(c.facingDirection) * toRope.x
             + Cos(c.facingDirection) * toRope.z, 1000)

\* angleToDegrees < 90
AngleBelow90(dot) == dot > 0

\* angleToDegrees < 45, on the cosine (cos 45 deg = 0.7071)
AngleBelow45(dot) == dot > 707

\* ropeEntryTest with the near distance of 2.0 as the only distance
ropeEntryTestNarrow(c, distance, dot, onRopeEdge) ==
    /\ c.platformMovement.forward
    /\ distance < 200
    /\ (AngleBelow45(dot) \/ distance < 100)

\* the transition test of checkRopeProximity (lines 575-582)
ropeEntryTest(c, distance, dot, onRopeEdge) ==
    /\ c.platformMovement.forward
    /\ (onRopeEdge \/ distance < 200)
    /\ distance < 250
    /\ (AngleBelow45(dot) \/ distance < 100)

\* checkRopeProximity that leaves the pole as it is held
checkRopeProximityKeepingPole(c, r) ==
    LET distanceToRopeStart == Dist(c.platformPosition, ropeStartPoint)
        dotProduct == FacingDot(c)
        facingRope == dotProduct > 500
        near == distanceToRopeStart < nearRopeDistance + 100 /\ facingRope
        edge == (distanceToRopeStart < 250 /\ facingRope)
                \/ distanceToRopeStart < 100
        c1 == [c EXCEPT !.nearRope = near, !.onRopeEdge = edge]
    IN  IF c.environment = "missing" \/ ~c.rope THEN c
        ELSE IF ropeEntryTest(c1, distanceToRopeStart, dotProduct, edge)
        THEN transitionToRope(c1, r) ELSE c1

\* checkRopeProximity()
checkRopeProximity(c, r) ==
    LET distanceToRopeStart == Dist(c.platformPosition, ropeStartPoint)
        dotProduct == FacingDot(c)
        facingRope == dotProduct > 500
        near == distanceToRopeStart < nearRopeDistance + 100 /\ facingRope
        edge == (distanceToRopeStart < 250 /\ facingRope)
                \/ distanceToRopeStart < 100
        c1 == [c EXCEPT !.nearRope = near, !.onRopeEdge = edge,
                        !.poleHoldMode = IF edge \/ near THEN "TWO_HAND"
                                         ELSE "ONE_HAND"]
    IN  IF c.environment = "missing" \/ ~c.rope THEN c
        ELSE IF ropeEntryTest(c1, distanceToRopeStart, dotProduct, edge)
        THEN transitionToRope(c1, r) ELSE c1

\* updatePosition(): on a platform it places the avatar when the position is
\* still unset and checks the rope proximity; on the rope it only moves the mesh
updatePosition(c, r) ==
    IF ~c.rope THEN c
    ELSE IF c.isOnPlatform /\ c.environment # "missing"
    THEN LET c1 == IF c.platformPosition = ZeroVector /\ c.environment = "loaded"
                   THEN [c EXCEPT
                           !.platformPosition =
                               [x |-> startPlatformPosition.x,
                                y |-> startPlatformPosition.y + platformHeight,
                                z |-> startPlatformPosition.z
                                      - (platformRadius * 6) \div 10],
                           !.facingDirection =
                               Atan2XZ(UnitVector(startPlatformPosition,
                                                  endPlatformPosition))]
                   ELSE c
         IN  checkRopeProximity(c1, r)
    ELSE c

\* constrainToPlatform that never sets the avatar back to the boundary
constrainToPlatformOpen(c, r) ==
    LET pp == c.platformPosition
        platformPos == IF DistSq(pp, startPlatformPosition)
                          < DistSq(pp, endPlatformPosition)
                       THEN startPlatformPosition ELSE endPlatformPosition
        dx == pp.x - platformPos.x
        dz == pp.z - platformPos.z
        distanceFromCenter == Rsqrt(dx * dx + dz * dz)
        distanceToRope == Dist(pp, ropeStartPoint)
        newRadius == platformRadius - charWidth \div 2
        dirX == RDiv(1000 * dx, distanceFromCenter)
        dirZ == RDiv(1000 * dz, distanceFromCenter)
        ropeDir == UnitVector(platformPos, ropeStartPoint)
        dotProduct == RDiv(dirX * ropeDir.x + dirZ * ropeDir.z, 1000)
        isInRopeOpening == dotProduct > 965
        movingTowardRope ==
            RDiv(Sin(c.facingDirection) * ropeDir.x
                 + Cos(c.facingDirection) * ropeDir.z, 1000) > 300
    IN  IF c.environment # "loaded" THEN c
        ELSE IF ~c.rope THEN [c EXCEPT !.error = TRUE]
        ELSE IF distanceToRope < 150
        THEN IF c.platformMovement.forward /\ distanceToRope < 100
             THEN transitionToRope(c, r) ELSE c
        ELSE IF distanceFromCenter > newRadius /\ isInRopeOpening
                /\ c.platformMovement.forward /\ movingTowardRope
                /\ distanceToRope < 300
        THEN transitionToRope(c, r)
        ELSE c

\* constrainToPlatform(); without a rope the read of this.rope.geometry
\* (line 1475) throws
constrainToPlatform(c, r) ==
    LET pp == c.platformPosition
        platformPos == IF DistSq(pp, startPlatformPosition)
                          < DistSq(pp, endPlatformPosition)
                       THEN startPlatformPosition ELSE endPlatformPosition
        dx == pp.x - platformPos.x
        dz == pp.z - platformPos.z
        distanceFromCenter == Rsqrt(dx * dx + dz * dz)
        distanceToRope == Dist(pp, ropeStartPoint)
        newRadius == platformRadius - charWidth \div 2
        dirX == RDiv(1000 * dx, distanceFromCenter)
        dirZ == RDiv(1000 * dz, distanceFromCenter)
        ropeDir == UnitVector(platformPos, ropeStartPoint)
        dotProduct == RDiv(dirX * ropeDir.x + dirZ * ropeDir.z, 1000)
        \* angleDegrees < 15, on the cosine (cos 15 deg = 0.9659)
        isInRopeOpening == dotProduct > 965
        movingTowardRope ==
            RDiv(Sin(c.facingDirection) * ropeDir.x
                 + Cos(c.facingDirection) * ropeDir.z, 1000) > 300
    IN  IF c.environment # "loaded" THEN c
        ELSE IF ~c.rope THEN [c EXCEPT !.error = TRUE]
        ELSE IF distanceToRope < 150
        THEN IF c.platformMovement.forward /\ distanceToRope < 100
             THEN transitionToRope(c, r) ELSE c
        ELSE IF distanceFromCenter > newRadius
        THEN IF ~isInRopeOpening
             THEN [c EXCEPT !.platformPosition =
                     [x |-> platformPos.x + RDiv(dirX * newRadius, 1000),
                      y |-> pp.y,
                      z |-> platformPos.z + RDiv(dirZ * newRadius, 1000)]]
             ELSE IF c.platformMovement.forward /\ movingTowardRope
                     /\ distanceToRope < 300
                  THEN transitionToRope(c, r) ELSE c
        ELSE c

\* updatePlatformMovement() up to its call of constrainToPlatform(): the turn
\* and the displacement of the frame (lines 1170-1245)
platformStep(c, dt) ==
    LET pm == c.platformMovement
        turn == RDiv(platformRotationSpeed * dt, 1000)
        facing == c.facingDirection
                  + (IF pm.rotateLeft THEN turn ELSE 0)
                  - (IF pm.rotateRight THEN turn ELSE 0)
        s == Sin(facing)
        k == Cos(facing)
        moveX == (IF pm.forward THEN s ELSE 0) - (IF pm.backward THEN s ELSE 0)
                 + (IF pm.left THEN k ELSE 0) - (IF pm.right THEN k ELSE 0)
        moveZ == (IF pm.forward THEN k ELSE 0) - (IF pm.backward THEN k ELSE 0)
                 - (IF pm.left THEN s ELSE 0) + (IF pm.right THEN s ELSE 0)
        length == Rsqrt(moveX * moveX + moveZ * moveZ)
        currentSpeed == IF c.nearRope THEN (platformSpeed * 6) \div 10
                        ELSE IF c.onRopeEdge THEN (platformSpeed * 4) \div 10
                        ELSE platformSpeed
    IN  IF moveX # 0 \/ moveZ # 0
        THEN [c EXCEPT
                !.facingDirection = facing,
                !.platformPosition.x =
                    @ + RDiv(moveX * currentSpeed * dt, length * 1000),
                !.platformPosition.z =
                    @ + RDiv(moveZ * currentSpeed * dt, length * 1000)]
        ELSE [c EXCEPT !.facingDirection = facing]

\* updatePlatformMovement(); an exception of constrainToPlatform() ends it
updatePlatformMovement(c, dt, r) ==
    LET pm == c.platformMovement
        turn == RDiv(platformRotationSpeed * dt, 1000)
        facing == c.facingDirection
                  + (IF pm.rotateLeft THEN turn ELSE 0)
                  - (IF pm.rotateRight THEN turn ELSE 0)
        s == Sin(facing)
        k == Cos(facing)
        moveX == (IF pm.forward THEN s ELSE 0) - (IF pm.backward THEN s ELSE 0)
                 + (IF pm.left THEN k ELSE 0) - (IF pm.right THEN k ELSE 0)
        moveZ == (IF pm.forward THEN k ELSE 0) - (IF pm.backward THEN k ELSE 0)
                 - (IF pm.left THEN s ELSE 0) + (IF pm.right THEN s ELSE 0)
        isMoving == moveX # 0 \/ moveZ # 0
        isRotating == pm.rotateLeft \/ pm.rotateRight
        length == Rsqrt(moveX * moveX + moveZ * moveZ)
        currentSpeed == IF c.nearRope THEN (platformSpeed * 6) \div 10
                        ELSE IF c.onRopeEdge THEN (platformSpeed * 4) \div 10
                        ELSE platformSpeed
        c1 == [c EXCEPT !.facingDirection = facing]
    IN  IF ~c.isOnPlatform THEN c
        ELSE IF isMoving
        THEN LET moved == [c1 EXCEPT
                             !.platformPosition.x =
                                 @ + RDiv(moveX * currentSpeed * dt, length * 1000),
                             !.platformPosition.z =
                                 @ + RDiv(moveZ * currentSpeed * dt, length * 1000)]
                 kept == constrainToPlatform(moved, r)
             IN  IF kept.environment = "loaded" /\ ~kept.rope THEN kept
                 ELSE [kept EXCEPT
                         !.state = "WALKING",
                         !.footstepCycle = @ + RDiv(dt * currentSpeed * 5, 100)]
        ELSE IF isRotating
        THEN [c1 EXCEPT
                 !.state = "WALKING",
                 !.footstepCycle = @ + RDiv(dt * platformRotationSpeed * 2, 1000)]
        ELSE IF c1.state = "WALKING" THEN [c1 EXCEPT !.state = "IDLE"]
        ELSE c1

\* update(deltaTime); rs, rw, rn are the Math.random() draws of the step
\* start, the end-of-step wobble and the periodic noise
update(c, dt, rs, rw, rn) ==
    IF c.isOnPlatform
    THEN updatePosition(updatePlatformMovement(c, dt, rs), rs)
    ELSE updateOnRope(c, dt, rs, rw, rn)

(***************************************************************************)
(* Character: commands.                                                    *)
(***************************************************************************)
isAnyMovementKeyPressed(c) ==
    \/ c.platformMovement.forward \/ c.platformMovement.backward
    \/ c.platformMovement.left \/ c.platformMovement.right

\* the shape shared by stopMoving (platform branch), stopMovingBackward,
\* stopMovingLeft and stopMovingRight
releaseMovement(c, key) ==
    LET c1 == [c EXCEPT !.platformMovement[key] = FALSE]
    IN  IF isAnyMovementKeyPressed(c1) THEN c1 ELSE [c1 EXCEPT !.state = "IDLE"]

\* adjustBalance without the test for the rope
adjustBalanceAnywhere(c, direction) == [c EXCEPT !.balanceForce = direction]

\* adjustBalance(direction)
adjustBalance(c, direction) ==
    IF ~c.isOnPlatform THEN [c EXCEPT !.balanceForce = direction] ELSE c

moveForward(c) ==
    IF c.isOnPlatform
    THEN [c EXCEPT !.platformMovement.forward = TRUE, !.state = "WALKING"]
    ELSE [c EXCEPT !.isMovingForward = TRUE]

stopMoving(c) ==
    IF c.isOnPlatform THEN releaseMovement(c, "forward")
    ELSE LET c1 == [c EXCEPT !.isMovingForward = FALSE]
         IN  IF ~c1.takingStep THEN [c1 EXCEPT !.state = "BALANCING"] ELSE c1

\* moveBackward without the test for the platform
moveBackwardAnywhere(c) ==
    [c EXCEPT !.platformMovement.backward = TRUE, !.state = "WALKING"]

moveBackward(c) ==
    IF c.isOnPlatform
    THEN [c EXCEPT !.platformMovement.backward = TRUE, !.state = "WALKING"]
    ELSE c

stopMovingBackward(c) ==
    IF c.isOnPlatform THEN releaseMovement(c, "backward") ELSE c

moveLeft(c) ==
    IF c.isOnPlatform
    THEN [c EXCEPT !.platformMovement.left = TRUE, !.state = "WALKING"]
    ELSE adjustBalance(c, -1)

stopMovingLeft(c) ==
    IF c.isOnPlatform THEN releaseMovement(c, "left") ELSE adjustBalance(c, 0)

moveRight(c) ==
    IF c.isOnPlatform
    THEN [c EXCEPT !.platformMovement.right = TRUE, !.state = "WALKING"]
    ELSE adjustBalance(c, 1)

stopMovingRight(c) ==
    IF c.isOnPlatform THEN releaseMovement(c, "right") ELSE adjustBalance(c, 0)

rotateLeft(c) ==
    IF c.isOnPlatform THEN [c EXCEPT !.platformMovement.rotateLeft = TRUE] ELSE c

stopRotatingLeft(c) ==
    IF c.isOnPlatform THEN [c EXCEPT !.platformMovement.rotateLeft = FALSE] ELSE c

rotateRight(c) ==
    IF c.isOnPlatform THEN [c EXCEPT !.platformMovement.rotateRight = TRUE] ELSE c

stopRotatingRight(c) ==
    IF c.isOnPlatform THEN [c EXCEPT !.platformMovement.rotateRight = FALSE] ELSE c

\* resetPosition(): the fields it assigns, then updatePosition() places the
\* avatar on the start platform (no draw is consumed: forward is cleared)
resetPosition(c) ==
    updatePosition([c EXCEPT
                      !.position = 0,
                      !.balance = 0,
                      !.speed = 0,
                      !.state = "IDLE",
                      !.balanceForce = 0,
                      !.isOnPlatform = TRUE,
                      !.isMovingForward = FALSE,
                      !.windEffect = 0,
                      !.platformMovement.forward = FALSE,
                      !.platformMovement.backward = FALSE,
                      !.platformMovement.left = FALSE,
                      !.platformMovement.right = FALSE,
                      !.platformPosition = ZeroVector,
                      !.poleHoldMode = "ONE_HAND"], 0)

\* the character after the constructor and load(), which ends in updatePosition()
LoadedCharacter == updatePosition(NewCharacter, 0)

(***************************************************************************)
(* Physics.                                                                *)
(***************************************************************************)
NewPhysics == [windForce |-> 0, windDirection |-> 0, windTimer |-> 0]

\* updateWind that draws a new wind without restarting the timer
updateWindKeepingTimer(p, dt, r1, r2) ==
    LET timer == p.windTimer + dt
    IN  IF timer >= windChangeFrequency
        THEN [windDirection |-> 2 * r1 - 1000,
              windForce |-> RDiv(r2 * maxWindForce, 1000),
              windTimer |-> timer]
        ELSE [p EXCEPT !.windTimer = timer]

\* updateWind() with generateRandomWind(); r1, r2 are its two draws
updateWind(p, dt, r1, r2) ==
    LET timer == p.windTimer + dt
    IN  IF timer >= windChangeFrequency
        THEN [windDirection |-> 2 * r1 - 1000,
              windForce |-> RDiv(r2 * maxWindForce, 1000),
              windTimer |-> 0]
        ELSE [p EXCEPT !.windTimer = timer]

\* applyForces(): what it does to the character once the wind is updated
applyForces(p, c, dt) ==
    IF c.state \in {"WALKING", "BALANCING"}
    THEN LET b1 == c.balance + RDiv(p.windForce * p.windDirection * dt, 1000000)
             b2 == b1 + RDiv(c.speed * (IF b1 > 0 THEN 100 ELSE -100) * dt, 1000000)
             recovery == RDiv(physicsRecoveryRate * dt, 1000)
             b3 == IF b2 > 0 THEN b2 - recovery
                   ELSE IF b2 < 0 THEN b2 + recovery ELSE b2
         IN  [c EXCEPT !.balance = Max(-1000, Min(1000, b3))]
    ELSE c

\* checkBalanceResult with the 0.9 of updateState() as the threshold
checkBalanceResultAtNine(c) == ~(Abs(c.balance) > 900)

\* the value checkBalance() returns
checkBalanceResult(c) == ~(Abs(c.balance) > balanceThreshold)

\* the character checkBalance() leaves
checkBalance(c) ==
    IF Abs(c.balance) > balanceThreshold THEN [c EXCEPT !.state = "FALLING"] ELSE c

(***************************************************************************)
(* GameState and the UIManager listener.                                   *)
(***************************************************************************)
validTransitions(s) ==
    CASE s = "START_SCREEN" -> {"GAMEPLAY"}
      [] s = "GAMEPLAY" -> {"PAUSED", "END_SCREEN"}
      [] s = "PAUSED" -> {"GAMEPLAY", "START_SCREEN"}
      [] s = "END_SCREEN" -> {"START_SCREEN"}
      [] OTHER -> {}

\* changeStateResult that also lets a state follow itself
changeStateResultReflexive(g, newState) ==
    \/ g.currentState = "NONE"
    \/ newState \in validTransitions(g.currentState) \cup {g.currentState}

\* the value changeState() returns; "NONE" stands for null
changeStateResult(g, newState) ==
    g.currentState = "NONE" \/ newState \in validTransitions(g.currentState)

\* the GameState changeState() leaves
changeState(g, newState) ==
    IF changeStateResult(g, newState)
    THEN [currentState |-> newState, previousState |-> g.currentState]
    ELSE g

showEndScreen(u, message) == [u EXCEPT !.endScreen = TRUE, !.endMessage = message]

\* UIManager.onGameStateChange
onGameStateChange(u, newState) ==
    CASE newState = "START_SCREEN" ->
            [u EXCEPT !.startScreen = TRUE, !.gameplayUI = FALSE, !.endScreen = FALSE]
      [] newState = "GAMEPLAY" ->
            [u EXCEPT !.startScreen = FALSE, !.gameplayUI = TRUE, !.endScreen = FALSE]
      [] newState = "END_SCREEN" ->
            showEndScreen([u EXCEPT !.startScreen = FALSE, !.gameplayUI = FALSE],
                          "Journey Complete")
      [] OTHER -> u

\* changeState() as the UI sees it: the listener runs on a successful change
notified(g, u, newState) ==
    IF changeStateResult(g, newState) THEN onGameStateChange(u, newState) ELSE u

(***************************************************************************)
(* Game: the frame loop and the keyboard handlers.                         *)
(***************************************************************************)
\* gameplayChecks that pauses the game on a fall
gameplayChecksPausing(g, u, c) ==
    LET fell == ~checkBalanceResult(c)
        c1 == checkBalance(c)
        g1 == IF fell THEN changeState(g, "PAUSED") ELSE g
        u1 == IF fell
              THEN showEndScreen(notified(g, u, "PAUSED"), "You fell!")
              ELSE u
        won == c1.position >= EndThreshold /\ c1.isOnPlatform
        g2 == IF won THEN changeState(g1, "END_SCREEN") ELSE g1
        u2 == IF won
              THEN showEndScreen(notified(g1, u1, "END_SCREEN"),
                                 "You made it across!")
              ELSE u1
    IN  [character |-> c1, gameState |-> g2, ui |-> u2]

\* gameplayChecks whose win check tests only that the avatar is on a platform
gameplayChecksAnyPlatform(g, u, c) ==
    LET fell == ~checkBalanceResult(c)
        c1 == checkBalance(c)
        g1 == IF fell THEN changeState(g, "END_SCREEN") ELSE g
        u1 == IF fell
              THEN showEndScreen(notified(g, u, "END_SCREEN"), "You fell!")
              ELSE u
        won == c1.isOnPlatform
        g2 == IF won THEN changeState(g1, "END_SCREEN") ELSE g1
        u2 == IF won
              THEN showEndScreen(notified(g1, u1, "END_SCREEN"),
                                 "You made it across!")
              ELSE u1
    IN  [character |-> c1, gameState |-> g2, ui |-> u2]

\* Game.update(), case GAMEPLAY, after character.update(): the fall check and
\* the win check
gameplayChecks(g, u, c) ==
    LET fell == ~checkBalanceResult(c)
        c1 == checkBalance(c)
        g1 == IF fell THEN changeState(g, "END_SCREEN") ELSE g
        u1 == IF fell
              THEN showEndScreen(notified(g, u, "END_SCREEN"), "You fell!")
              ELSE u
        won == c1.position >= EndThreshold /\ c1.isOnPlatform
        g2 == IF won THEN changeState(g1, "END_SCREEN") ELSE g1
        u2 == IF won
              THEN showEndScreen(notified(g1, u1, "END_SCREEN"),
                                 "You made it across!")
              ELSE u1
    IN  [character |-> c1, gameState |-> g2, ui |-> u2]

\* whether update() can reach startNewStep(), the end-of-step wobble, the
\* periodic noise: a Math.random() draw is only enumerated where it can be made
mayStartStep(c) ==
    IF c.isOnPlatform THEN c.platformMovement.forward ELSE c.isMovingForward

mayWobble(c) == ~c.isOnPlatform /\ c.takingStep /\ c.totalStepsTaken >= 10

mayNoise(c, dt) ==
    ~c.isOnPlatform /\ c.balanceNoiseTimer + dt >= balanceNoiseInterval

DrawFrom(RS, needed) == IF needed THEN RS ELSE {500}

\* the accumulators the code never bounds, capped
withinCaps(c, maxSteps, maxIdle, maxFoot, maxTurn) ==
    /\ c.totalStepsTaken <= maxSteps
    /\ c.stepTimer <= maxIdle * stepTime
    /\ c.footstepCycle <= maxFoot * 1000
    /\ Abs(c.facingDirection - Pi) <= maxTurn * 1000

\* Game.update() in GAMEPLAY with clock.getDelta() = dt
GameplayFrame(DT, RS, maxSteps, maxIdle, maxFoot, maxTurn) ==
    /\ gameState.currentState = "GAMEPLAY"
    /\ \E dt \in DT :
         \E r1 \in DrawFrom(RS, physics.windTimer + dt >= windChangeFrequency) :
           \E r2 \in DrawFrom(RS, physics.windTimer + dt >= windChangeFrequency) :
             \E rs \in DrawFrom(RS, mayStartStep(character)) :
               \E rw \in DrawFrom(RS, mayWobble(character)) :
                 \E rn \in DrawFrom(RS, mayNoise(character, dt)) :
                   \E p1 \in {updateWind(physics, dt, r1, r2)} :
                     \E out \in {gameplayChecks(
                                     gameState, ui,
                                     update(applyForces(p1, character, dt),
                                            dt, rs, rw, rn))} :
                       /\ withinCaps(out.character, maxSteps, maxIdle,
                                     maxFoot, maxTurn)
                       /\ physics' = p1
                       /\ character' = out.character
                       /\ gameState' = out.gameState
                       /\ ui' = out.ui

KeyNames == {"left", "right", "up", "down", "q", "e"}

\* Game.handleKeyDown, the character it leaves
keyDown(c, key) ==
    CASE key = "left" -> IF c.isOnPlatform THEN moveLeft(c) ELSE adjustBalance(c, -1)
      [] key = "right" -> IF c.isOnPlatform THEN moveRight(c) ELSE adjustBalance(c, 1)
      [] key = "up" -> moveForward(c)
      [] key = "down" -> IF c.isOnPlatform THEN moveBackward(c) ELSE c
      [] key = "q" -> IF c.isOnPlatform THEN rotateLeft(c) ELSE c
      [] key = "e" -> IF c.isOnPlatform THEN rotateRight(c) ELSE c
      [] OTHER -> c

\* Game.handleKeyUp, the character it leaves
keyUp(c, key) ==
    CASE key = "left" -> IF c.isOnPlatform THEN stopMovingLeft(c)
                         ELSE adjustBalance(c, 0)
      [] key = "right" -> IF c.isOnPlatform THEN stopMovingRight(c)
                          ELSE adjustBalance(c, 0)
      [] key = "up" -> stopMoving(c)
      [] key = "down" -> IF c.isOnPlatform THEN stopMovingBackward(c) ELSE c
      [] key = "q" -> IF c.isOnPlatform THEN stopRotatingLeft(c) ELSE c
      [] key = "e" -> IF c.isOnPlatform THEN stopRotatingRight(c) ELSE c
      [] OTHER -> c

HandleKeyDown(KS) ==
    /\ gameState.currentState = "GAMEPLAY"
    /\ \E key \in KS : character' = keyDown(character, key)
    /\ UNCHANGED <<physics, gameState, ui>>

HandleKeyUp(KS) ==
    /\ gameState.currentState = "GAMEPLAY"
    /\ \E key \in KS : character' = keyUp(character, key)
    /\ UNCHANGED <<physics, gameState, ui>>

\* the play button of the start screen
ClickPlay ==
    /\ ui.startScreen
    /\ gameState' = changeState(gameState, "GAMEPLAY")
    /\ ui' = [notified(gameState, ui, "GAMEPLAY") EXCEPT
                 !.startScreen = FALSE, !.gameplayUI = TRUE]
    /\ UNCHANGED <<character, physics>>

\* the try-again button of the end screen
ClickTryAgain ==
    /\ ui.endScreen
    /\ gameState' = changeState(gameState, "START_SCREEN")
    /\ ui' = [notified(gameState, ui, "START_SCREEN") EXCEPT
                 !.endScreen = FALSE, !.gameplayUI = FALSE, !.startScreen = TRUE]
    /\ character' = resetPosition(character)
    /\ UNCHANGED physics

\* Game.init()
Init ==
    /\ character = LoadedCharacter
    /\ physics = NewPhysics
    /\ gameState = changeState([currentState |-> "NONE", previousState |-> "NONE"],
                               "START_SCREEN")
    /\ ui = onGameStateChange([startScreen |-> FALSE, gameplayUI |-> FALSE,
                               endScreen |-> FALSE, endMessage |-> ""],
                              "START_SCREEN")

(***************************************************************************)
(* The Character and Physics classes driven through their methods.         *)
(***************************************************************************)
\* character.update(dt)
Update(DT, RS, maxSteps, maxIdle, maxFoot, maxTurn) ==
    /\ \E dt \in DT :
         \E rs \in DrawFrom(RS, mayStartStep(character)) :
           \E rw \in DrawFrom(RS, mayWobble(character)) :
             \E rn \in DrawFrom(RS, mayNoise(character, dt)) :
               LET c1 == update(character, dt, rs, rw, rn)
               IN  /\ withinCaps(c1, maxSteps, maxIdle, maxFoot, maxTurn)
                   /\ character' = c1
    /\ UNCHANGED <<physics, gameState, ui>>

MoveForward ==
    character' = moveForward(character) /\ UNCHANGED <<physics, gameState, ui>>

StopMoving ==
    character' = stopMoving(character) /\ UNCHANGED <<physics, gameState, ui>>





AdjustBalance(D) ==
    /\ \E direction \in D :
         character' = adjustBalance(character, direction)
    /\ UNCHANGED <<physics, gameState, ui>>

ResetPosition ==
    character' = resetPosition(character) /\ UNCHANGED <<physics, gameState, ui>>

\* physics.checkBalance(character)
CheckBalance ==
    character' = checkBalance(character) /\ UNCHANGED <<physics, gameState, ui>>

(***************************************************************************)
(* Spec: the game as the player drives it.                                 *)
(***************************************************************************)
MaxSteps == 4
MaxIdleTicks == 3
MaxFootsteps == 5
MaxTurns == 0
Dts == {500}
Rands == {0, 999}
Keys == {"up"}

Frame == GameplayFrame(Dts, Rands, MaxSteps, MaxIdleTicks, MaxFootsteps, MaxTurns)

KeyDown == HandleKeyDown(Keys)

KeyUp == HandleKeyUp(Keys)

Next == Frame \/ KeyDown \/ KeyUp \/ ClickPlay \/ ClickTryAgain

Spec == Init /\ [][Next]_vars

(***************************************************************************)
(* CharSpec: the Character and Physics methods called in any order, on the *)
(* start platform and over the first steps on the rope.                    *)
(***************************************************************************)
CharMaxSteps == 2
CharDt == 250
CharDts == {CharDt}
CharRands == {999}

CharUpdate ==
    Update(CharDts, CharRands, CharMaxSteps, MaxIdleTicks, MaxFootsteps, MaxTurns)

CharLean == AdjustBalance({-1, 0, 1})

CharNext ==
    \/ CharUpdate
    \/ MoveForward
    \/ StopMoving
    \/ CharLean
    \/ ResetPosition
    \/ CheckBalance

CharSpec == Init /\ [][CharNext]_vars

(***************************************************************************)
(* WalkSpec: the whole rope, forward held from the start platform to the   *)
(* end platform, with frames of two lengths and the lean commands.         *)
(***************************************************************************)
WalkMaxSteps == 40
WalkDts == {100, 500}
WalkRands == {999}

WalkUpdate ==
    Update(WalkDts, WalkRands, WalkMaxSteps, MaxIdleTicks, MaxFootsteps, MaxTurns)

WalkLean == AdjustBalance({0, 1})

WalkNext == WalkUpdate \/ MoveForward \/ WalkLean

WalkSpec == Init /\ [][WalkNext]_vars

(***************************************************************************)
(* GateSpec: the platform-to-rope gate.  The avatar stands anywhere in the *)
(* part of the start platform next to the rope, with any of five facings   *)
(* and no key held: backing, strafing and turning reach every such place   *)
(* and, without the forward key, cannot trigger a transition.  From there  *)
(* the forward key is pressed and released and the character is updated.   *)
(***************************************************************************)
GateMaxSteps == 1
GateMaxFootsteps == 10
GateMaxTurns == 4
GateDts == {250, 500}
GateRands == {999}
GateXs == {-300, -200, -100, 0, 100, 200, 300}
GateZs == {9150, 9200, 9250, 9300, 9350, 9400, 9450, 9500, 9550}
GateFacings == {0, 1571, 2356, 3142, 3927}

\* the places constrainToPlatform() lets the avatar stand: within the reduced
\* radius of the platform, or beyond it inside the rope opening
walkable(p) ==
    LET dx == p.x - startPlatformPosition.x
        dz == p.z - startPlatformPosition.z
        distanceFromCenter == Rsqrt(dx * dx + dz * dz)
        ropeDir == UnitVector(startPlatformPosition, ropeStartPoint)
        dotProduct == RDiv(RDiv(1000 * dx, distanceFromCenter) * ropeDir.x
                           + RDiv(1000 * dz, distanceFromCenter) * ropeDir.z, 1000)
    IN  distanceFromCenter <= platformRadius - charWidth \div 2 \/ dotProduct > 965

GateInit ==
    /\ \E x \in GateXs : \E z \in GateZs : \E f \in GateFacings :
         LET p == [x |-> x, y |-> LoadedCharacter.platformPosition.y, z |-> z]
         IN  /\ walkable(p)
             /\ character = checkRopeProximity(
                                [LoadedCharacter EXCEPT !.platformPosition = p,
                                                        !.facingDirection = f], 0)
    /\ physics = NewPhysics
    /\ gameState = changeState([currentState |-> "NONE", previousState |-> "NONE"],
                               "START_SCREEN")
    /\ ui = onGameStateChange([startScreen |-> FALSE, gameplayUI |-> FALSE,
                               endScreen |-> FALSE, endMessage |-> ""],
                              "START_SCREEN")

GateUpdate ==
    Update(GateDts, GateRands, GateMaxSteps, MaxIdleTicks, GateMaxFootsteps,
           GateMaxTurns)

GateNext == GateUpdate \/ MoveForward \/ StopMoving

GateSpec == GateInit /\ [][GateNext]_vars

(***************************************************************************)
(* IdleSpec: walking and standing on the rope.  The forward key is pressed *)
(* and released at any time, the frames all have one length, and the       *)
(* avatar may stand for up to IdleMaxIdleTicks * stepTime.                 *)
(***************************************************************************)
IdleMaxSteps == 7
IdleMaxIdleTicks == 6
IdleDt == 100
IdleDts == {IdleDt}
IdleRands == {999}

IdleUpdate ==
    Update(IdleDts, IdleRands, IdleMaxSteps, IdleMaxIdleTicks, MaxFootsteps,
           MaxTurns)

IdleNext == IdleUpdate \/ MoveForward \/ StopMoving

IdleSpec == Init /\ [][IdleNext]_vars

(***************************************************************************)
(* WinSpec: the game played across the whole rope, with the forward key,   *)
(* the lean key and the clicks; every random draw is 0.5, so there is no   *)
(* wind and no disturbance and the avatar falls only by leaning.           *)
(***************************************************************************)
WinMaxSteps == 34
WinDts == {500}
WinRands == {500}
WinKeys == {"up", "right"}

WinFrame ==
    GameplayFrame(WinDts, WinRands, WinMaxSteps, MaxIdleTicks, MaxFootsteps,
                  MaxTurns)

WinKeyDown == HandleKeyDown(WinKeys)

WinKeyUp == HandleKeyUp(WinKeys)

WinNext == WinFrame \/ WinKeyDown \/ WinKeyUp \/ ClickPlay \/ ClickTryAgain

WinSpec == Init /\ [][WinNext]_vars

(***************************************************************************)
(* CommandSpec: every command method of Character called at any time, on   *)
(* the start platform and during the first steps on the rope.  The lean    *)
(* command is called with direction 1 only, so that a lean force of -1     *)
(* comes from moveLeft() alone.                                            *)
(***************************************************************************)
CommandMaxSteps == 1
CommandMaxFootsteps == 4
CommandMaxTurns == 1
CommandDts == {500}
CommandRands == {999}

\* the commands without an argument
CommandNames ==
    {"moveForward", "stopMoving", "moveBackward", "stopMovingBackward",
     "moveLeft", "stopMovingLeft", "moveRight", "stopMovingRight",
     "rotateLeft", "stopRotatingLeft", "rotateRight", "stopRotatingRight"}

\* character[name]()
command(c, name) ==
    CASE name = "moveForward" -> moveForward(c)
      [] name = "stopMoving" -> stopMoving(c)
      [] name = "moveBackward" -> moveBackward(c)
      [] name = "stopMovingBackward" -> stopMovingBackward(c)
      [] name = "moveLeft" -> moveLeft(c)
      [] name = "stopMovingLeft" -> stopMovingLeft(c)
      [] name = "moveRight" -> moveRight(c)
      [] name = "stopMovingRight" -> stopMovingRight(c)
      [] name = "rotateLeft" -> rotateLeft(c)
      [] name = "stopRotatingLeft" -> stopRotatingLeft(c)
      [] name = "rotateRight" -> rotateRight(c)
      [] name = "stopRotatingRight" -> stopRotatingRight(c)

Command ==
    /\ \E name \in CommandNames : character' = command(character, name)
    /\ UNCHANGED <<physics, gameState, ui>>

CommandUpdate ==
    Update(CommandDts, CommandRands, CommandMaxSteps, MaxIdleTicks,
           CommandMaxFootsteps, CommandMaxTurns)

CommandLean == AdjustBalance({1})

CommandNext == CommandUpdate \/ Command \/ CommandLean

CommandSpec == Init /\ [][CommandNext]_vars

(***************************************************************************)
(* AnchorSpec: a Character constructed without a rope, without an          *)
(* environment, or with an environment that has no platform positions yet, *)
(* then loaded and driven through its commands, update() and               *)
(* resetPosition().                                                        *)
(***************************************************************************)
AnchorMaxFootsteps == 15
AnchorMaxTurns == 1
AnchorMaxReach == 6

\* the arguments of the constructor with an anchor missing
MissingAnchors ==
    {a \in [rope : BOOLEAN, environment : {"missing", "unloaded", "loaded"}] :
       ~(a.rope /\ a.environment = "loaded")}

\* the accumulators the code never bounds, capped; without the boundary
\* constraint the place on the ground is one of them
withinAnchorCaps(c) ==
    /\ c.footstepCycle <= AnchorMaxFootsteps * 1000
    /\ Abs(c.facingDirection) <= AnchorMaxTurns * 1000
    /\ Abs(c.platformPosition.x) <= AnchorMaxReach * 100
    /\ Abs(c.platformPosition.z) <= AnchorMaxReach * 100

\* new Character(scene, rope, environment); load()
AnchorInit ==
    /\ \E a \in MissingAnchors :
         character = updatePosition([NewCharacter EXCEPT
                                        !.rope = a.rope,
                                        !.environment = a.environment], 0)
    /\ physics = NewPhysics
    /\ gameState = changeState([currentState |-> "NONE", previousState |-> "NONE"],
                               "START_SCREEN")
    /\ ui = onGameStateChange([startScreen |-> FALSE, gameplayUI |-> FALSE,
                               endScreen |-> FALSE, endMessage |-> ""],
                              "START_SCREEN")

\* character.update(dt)
AnchorUpdate ==
    /\ \E dt \in CommandDts :
         \E c1 \in {update(character, dt, 500, 500, 500)} :
           /\ withinAnchorCaps(c1)
           /\ character' = c1
    /\ UNCHANGED <<physics, gameState, ui>>

\* the commands of AnchorSpec: walk and turn
AnchorCommandNames == {"moveForward", "stopMoving", "rotateLeft", "stopRotatingLeft"}

AnchorCommand ==
    /\ \E name \in AnchorCommandNames : character' = command(character, name)
    /\ UNCHANGED <<physics, gameState, ui>>

AnchorNext == AnchorUpdate \/ AnchorCommand \/ ResetPosition

AnchorSpec == AnchorInit /\ [][AnchorNext]_vars

(***************************************************************************)
(* PlatformSpec: the game played on the start platform.  The player walks  *)
(* backward and forward for as long as the footstep cap allows, so that    *)
(* the wind, first drawn after 3 s, acts on an avatar that has not left    *)
(* the platform.                                                           *)
(***************************************************************************)
PlatformMaxSteps == 1
PlatformMaxFootsteps == 30
PlatformDts == {500}
PlatformRands == {999}
PlatformKeys == {"up", "down"}

PlatformFrame ==
    GameplayFrame(PlatformDts, PlatformRands, PlatformMaxSteps, MaxIdleTicks,
                  PlatformMaxFootsteps, MaxTurns)

PlatformKeyDown == HandleKeyDown(PlatformKeys)

PlatformKeyUp == HandleKeyUp(PlatformKeys)

PlatformNext ==
    PlatformFrame \/ PlatformKeyDown \/ PlatformKeyUp \/ ClickPlay \/ ClickTryAgain

PlatformSpec == Init /\ [][PlatformNext]_vars

(***************************************************************************)
(* ScreenSpec: the frame loop and the key listeners as the browser runs    *)
(* them, in every game state: requestAnimationFrame calls Game.update()    *)
(* and the window delivers key events on the start screen and on the end   *)
(* screen as well as during the game.                                      *)
(***************************************************************************)
\* Game.update() that runs the GAMEPLAY case on every screen
gameUpdateAnyState(g, u, c, p, dt, r1, r2, rs, rw, rn) ==
    LET p1 == updateWind(p, dt, r1, r2)
        out == gameplayChecks(g, u, update(applyForces(p1, c, dt), dt, rs, rw, rn))
    IN  [character |-> out.character, physics |-> p1,
         gameState |-> out.gameState, ui |-> out.ui]

\* Game.update(): the switch on gameState.currentState
gameUpdate(g, u, c, p, dt, r1, r2, rs, rw, rn) ==
    IF g.currentState = "GAMEPLAY"
    THEN LET p1 == updateWind(p, dt, r1, r2)
             out == gameplayChecks(g, u,
                                   update(applyForces(p1, c, dt), dt, rs, rw, rn))
         IN  [character |-> out.character, physics |-> p1,
              gameState |-> out.gameState, ui |-> out.ui]
    ELSE [character |-> c, physics |-> p, gameState |-> g, ui |-> u]

\* Game.handleKeyDown without its first line
handleKeyDownAnyState(g, c, key) == keyDown(c, key)

\* Game.handleKeyDown(event)
handleKeyDown(g, c, key) ==
    IF g.currentState # "GAMEPLAY" THEN c ELSE keyDown(c, key)

\* Game.handleKeyUp without its first line
handleKeyUpAnyState(g, c, key) == keyUp(c, key)

\* Game.handleKeyUp(event)
handleKeyUp(g, c, key) ==
    IF g.currentState # "GAMEPLAY" THEN c ELSE keyUp(c, key)

ScreenMaxSteps == 3
ScreenMaxFootsteps == 5
ScreenDts == {500}
ScreenRands == {999}
ScreenKeys == {"up", "left"}

ScreenFrame ==
    \E dt \in ScreenDts :
      \E r1 \in DrawFrom(ScreenRands, physics.windTimer + dt >= windChangeFrequency) :
        \E r2 \in DrawFrom(ScreenRands, physics.windTimer + dt >= windChangeFrequency) :
          \E rs \in DrawFrom(ScreenRands, mayStartStep(character)) :
            \E rw \in DrawFrom(ScreenRands, mayWobble(character)) :
              \E rn \in DrawFrom(ScreenRands, mayNoise(character, dt)) :
                \E out \in {gameUpdate(gameState, ui, character, physics,
                                        dt, r1, r2, rs, rw, rn)} :
                  /\ withinCaps(out.character, ScreenMaxSteps, MaxIdleTicks,
                                ScreenMaxFootsteps, MaxTurns)
                  /\ physics' = out.physics
                  /\ character' = out.character
                  /\ gameState' = out.gameState
                  /\ ui' = out.ui

ScreenKeyDown ==
    /\ \E key \in ScreenKeys : character' = handleKeyDown(gameState, character, key)
    /\ UNCHANGED <<physics, gameState, ui>>

ScreenKeyUp ==
    /\ \E key \in ScreenKeys : character' = handleKeyUp(gameState, character, key)
    /\ UNCHANGED <<physics, gameState, ui>>

ScreenNext ==
    ScreenFrame \/ ScreenKeyDown \/ ScreenKeyUp \/ ClickPlay \/ ClickTryAgain

ScreenSpec == Init /\ [][ScreenNext]_vars

(***************************************************************************)
(* RecoverSpec: leaning and recovering on the rope.  The game starts where *)
(* the avatar stands on the rope after its first step (forward pressed on  *)
(* the start platform, one frame onto the rope, forward released, one      *)
(* frame to end the step).  Every random draw is 0.5, so there is no wind, *)
(* no noise and no step disturbance; the avatar is leaned with the A key   *)
(* and left to recover, in frames of 0.1 s and of 0.5 s.  The frame loop   *)
(* runs for ever, hence the weak fairness of the frame.                    *)
(***************************************************************************)
RecoverMaxSteps == 1
RecoverMaxIdleTicks == 6
RecoverMaxFootsteps == 5
RecoverDts == {100, 500}
RecoverRands == {500}
RecoverKeys == {"left"}

\* the avatar after its first step on the rope
StandingOnRope ==
    update(keyUp(update(keyDown(LoadedCharacter, "up"), 500, 500, 500, 500), "up"),
           500, 500, 500, 500)

RecoverInit ==
    /\ character = StandingOnRope
    /\ physics = updateWind(updateWind(NewPhysics, 500, 500, 500), 500, 500, 500)
    /\ gameState = changeState(changeState([currentState |-> "NONE",
                                            previousState |-> "NONE"],
                                           "START_SCREEN"), "GAMEPLAY")
    /\ ui = [startScreen |-> FALSE, gameplayUI |-> TRUE,
             endScreen |-> FALSE, endMessage |-> ""]

RecoverFrame ==
    GameplayFrame(RecoverDts, RecoverRands, RecoverMaxSteps, RecoverMaxIdleTicks,
                  RecoverMaxFootsteps, MaxTurns)

RecoverKeyDown == HandleKeyDown(RecoverKeys)

RecoverKeyUp == HandleKeyUp(RecoverKeys)

RecoverNext ==
    RecoverFrame \/ RecoverKeyDown \/ RecoverKeyUp \/ ClickPlay \/ ClickTryAgain

\* a frame can be taken: the game is on and the caps leave room for it
RecoverFrameCanRun ==
    /\ gameState.currentState = "GAMEPLAY"
    /\ \E dt \in RecoverDts : \E r \in RecoverRands :
         withinCaps(gameUpdate(gameState, ui, character, physics,
                               dt, r, r, r, r, r).character,
                    RecoverMaxSteps, RecoverMaxIdleTicks, RecoverMaxFootsteps,
                    MaxTurns)

\* requestAnimationFrame keeps calling Game.update(): weak fairness of the
\* frame, with its enabling condition written out
RecoverFairness ==
    []<>(~RecoverFrameCanRun) \/ []<><<RecoverFrame>>_vars

RecoverSpec == RecoverInit /\ [][RecoverNext]_vars /\ RecoverFairness

(***************************************************************************)
(* The GameState class driven through changeState(), with the UIManager    *)
(* handler as its one listener.  The listener record also counts its       *)
(* invocations and keeps the argument and the outcome of the last call of  *)
(* changeState().                                                          *)
(***************************************************************************)
MaxCalls == 8

\* the arguments changeState() is called with: the four states and a name
\* that validTransitions does not know
StateNames == {"START_SCREEN", "GAMEPLAY", "PAUSED", "END_SCREEN", "UNKNOWN"}

\* the listener as notifyStateChangeListeners() calls it
countingListener(u, newState) ==
    [onGameStateChange(u, newState) EXCEPT !.calls = @ + 1]

\* gameState.changeState(newState)
ChangeState ==
    /\ ui.calls < MaxCalls
    /\ \E newState \in StateNames :
         /\ gameState' = changeState(gameState, newState)
         /\ ui' = [(IF changeStateResult(gameState, newState)
                    THEN countingListener(ui, newState)
                    ELSE ui)
                   EXCEPT !.argument = newState,
                          !.returned = changeStateResult(gameState, newState)]
    /\ UNCHANGED <<character, physics>>

\* new GameState(); addStateChangeListener(listener)
StateInit ==
    /\ character = LoadedCharacter
    /\ physics = NewPhysics
    /\ gameState = [currentState |-> "NONE", previousState |-> "NONE"]
    /\ ui = [startScreen |-> FALSE, gameplayUI |-> FALSE, endScreen |-> FALSE,
             endMessage |-> "", calls |-> 0, argument |-> "NONE",
             returned |-> FALSE]

StateNext == ChangeState

StateSpec == StateInit /\ [][StateNext]_vars

(***************************************************************************)
(* ListenerSpec: a GameState with its list of listeners.  Callers add and  *)
(* remove listeners and call changeState() in any order; ui records, for   *)
(* the last call of changeState(), its argument, the value it returned and *)
(* the calls the listeners received, in the order they received them.      *)
(* The listeners are callbacks like UIManager.onGameStateChange: they show *)
(* and hide screens and do not call back into the GameState.               *)
(***************************************************************************)
\* the values passed as listener: three functions and a value that is none
Functions == {"f", "g", "h"}

ListenerArguments == Functions \cup {"notAFunction"}

\* this.stateChangeListeners.includes(listener)
includes(ls, l) == \E i \in 1..Len(ls) : ls[i] = l

\* this.stateChangeListeners.indexOf(listener), 0 standing for -1
indexOf(ls, l) ==
    IF includes(ls, l) THEN CHOOSE i \in 1..Len(ls) :
                              /\ ls[i] = l
                              /\ \A j \in 1..(i - 1) : ls[j] # l
    ELSE 0

\* addStateChangeListener without the includes() test
addStateChangeListenerAgain(ls, l) ==
    IF l \in Functions THEN Append(ls, l) ELSE ls

\* addStateChangeListener(listener): the list it leaves
addStateChangeListener(ls, l) ==
    IF l \in Functions /\ ~includes(ls, l) THEN Append(ls, l) ELSE ls

\* removeStateChangeListener(listener): the list it leaves
removeStateChangeListener(ls, l) ==
    IF indexOf(ls, l) # 0
    THEN SubSeq(ls, 1, indexOf(ls, l) - 1) \o SubSeq(ls, indexOf(ls, l) + 1, Len(ls))
    ELSE ls

\* notifyStateChangeListeners(): the calls made, in order
notifyStateChangeListeners(ls, g) ==
    [i \in 1..Len(ls) |->
       [listener |-> ls[i], newState |-> g.currentState,
        previousState |-> g.previousState]]

AddListener ==
    /\ \E l \in ListenerArguments :
         gameState' = [gameState EXCEPT !.stateChangeListeners =
                                          addStateChangeListener(@, l)]
    /\ UNCHANGED <<character, physics, ui>>

RemoveListener ==
    /\ \E l \in ListenerArguments :
         gameState' = [gameState EXCEPT !.stateChangeListeners =
                                          removeStateChangeListener(@, l)]
    /\ UNCHANGED <<character, physics, ui>>

\* gameState.changeState(newState) with the listeners of the list
ListenerChangeState ==
    /\ \E newState \in StateNames :
         \E g \in {changeState([currentState |-> gameState.currentState,
                                previousState |-> gameState.previousState],
                               newState)} :
           /\ gameState' = [gameState EXCEPT !.currentState = g.currentState,
                                             !.previousState = g.previousState]
           /\ ui' = [argument |-> newState,
                     returned |-> changeStateResult(gameState, newState),
                     notified |-> IF changeStateResult(gameState, newState)
                                  THEN notifyStateChangeListeners(
                                           gameState.stateChangeListeners, g)
                                  ELSE << >>]
    /\ UNCHANGED <<character, physics>>

\* new GameState()
ListenerInit ==
    /\ character = LoadedCharacter
    /\ physics = NewPhysics
    /\ gameState = [currentState |-> "NONE", previousState |-> "NONE",
                    stateChangeListeners |-> << >>]
    /\ ui = [argument |-> "NONE", returned |-> FALSE, notified |-> << >>]

ListenerNext == AddListener \/ RemoveListener \/ ListenerChangeState

ListenerSpec == ListenerInit /\ [][ListenerNext]_vars

(***************************************************************************)
(* EndSpec: whole games, won and lost, with the frame loop and the key     *)
(* listeners running on every screen: a frame or a key event that arrives  *)
(* on the start screen or on the end screen is an action of its own, which *)
(* Game.update() and the handlers answer by doing nothing.  Every random   *)
(* draw is 0.5, as in WinSpec.                                             *)
(***************************************************************************)
EndFrame ==
    \E dt \in WinDts :
      \E r1 \in DrawFrom(WinRands, physics.windTimer + dt >= windChangeFrequency) :
        \E r2 \in DrawFrom(WinRands, physics.windTimer + dt >= windChangeFrequency) :
          \E rs \in DrawFrom(WinRands, mayStartStep(character)) :
            \E rw \in DrawFrom(WinRands, mayWobble(character)) :
              \E rn \in DrawFrom(WinRands, mayNoise(character, dt)) :
                \E out \in {gameUpdate(gameState, ui, character, physics,
                                        dt, r1, r2, rs, rw, rn)} :
                  /\ withinCaps(out.character, WinMaxSteps, MaxIdleTicks,
                                MaxFootsteps, MaxTurns)
                  /\ physics' = out.physics
                  /\ character' = out.character
                  /\ gameState' = out.gameState
                  /\ ui' = out.ui

EndKeyDown ==
    /\ \E key \in WinKeys : character' = handleKeyDown(gameState, character, key)
    /\ UNCHANGED <<physics, gameState, ui>>

EndKeyUp ==
    /\ \E key \in WinKeys : character' = handleKeyUp(gameState, character, key)
    /\ UNCHANGED <<physics, gameState, ui>>

EndNext == EndFrame \/ EndKeyDown \/ EndKeyUp \/ ClickPlay \/ ClickTryAgain

EndSpec == Init /\ [][EndNext]_vars

(***************************************************************************)
(* BackSpec: the rope walked with the forward and the backward commands    *)
(* called at any time, on the start platform and on the rope, in           *)
(* frames of two lengths, over the first BackMaxSteps steps.  Every random  *)
(* draw is 0.5: the steps do not disturb the balance.                      *)
(***************************************************************************)
BackMaxSteps == 6

BackUpdate ==
    Update(WalkDts, WinRands, BackMaxSteps, MaxIdleTicks, MaxFootsteps, MaxTurns)

BackCommandNames ==
    {"moveForward", "stopMoving", "moveBackward", "stopMovingBackward"}

BackCommand ==
    /\ \E name \in BackCommandNames : character' = command(character, name)
    /\ UNCHANGED <<physics, gameState, ui>>

BackNext == BackUpdate \/ BackCommand

BackSpec == Init /\ [][BackNext]_vars

(***************************************************************************)
(* LeanSpec: the rope walked from end to end with adjustBalance(1) and     *)
(* adjustBalance(0) called at any time, on the platforms as well as on the *)
(* rope, and resetPosition() called at any time.  Every random draw is     *)
(* 0.5, so the balance moves only by the lean.                             *)
(***************************************************************************)
LeanUpdate ==
    Update(WinDts, WinRands, WinMaxSteps, MaxIdleTicks, MaxFootsteps, MaxTurns)

LeanNext == LeanUpdate \/ MoveForward \/ WalkLean \/ ResetPosition

LeanSpec == Init /\ [][LeanNext]_vars

(***************************************************************************)
(* KeySpec: the keyboard.  The player presses and releases the two lean    *)
(* keys in any order; the window delivers a keydown when a key goes down   *)
(* and a keyup when it comes up, on every screen.  ui.keysHeld records the *)
(* keys that are down.  The game starts where the avatar stands on the     *)
(* rope after its first step, as in RecoverSpec, and every random draw is  *)
(* 0.5.                                                                    *)
(***************************************************************************)
KeyMaxSteps == 1
KeyMaxIdleTicks == 4
LeanKeys == {"left", "right"}

KeyInit ==
    /\ character = StandingOnRope
    /\ physics = updateWind(updateWind(NewPhysics, 500, 500, 500), 500, 500, 500)
    /\ gameState = changeState(changeState([currentState |-> "NONE",
                                            previousState |-> "NONE"],
                                           "START_SCREEN"), "GAMEPLAY")
    /\ ui = [startScreen |-> FALSE, gameplayUI |-> TRUE,
             endScreen |-> FALSE, endMessage |-> "", keysHeld |-> {}]

KeyFrame ==
    GameplayFrame(RecoverDts, RecoverRands, KeyMaxSteps, KeyMaxIdleTicks,
                  MaxFootsteps, MaxTurns)

\* a key goes down: window keydown -> Game.handleKeyDown
KeyPress ==
    /\ \E key \in LeanKeys \ ui.keysHeld :
         /\ character' = handleKeyDown(gameState, character, key)
         /\ ui' = [ui EXCEPT !.keysHeld = @ \cup {key}]
    /\ UNCHANGED <<physics, gameState>>

\* a key comes up: window keyup -> Game.handleKeyUp
KeyRelease ==
    /\ \E key \in ui.keysHeld :
         /\ character' = handleKeyUp(gameState, character, key)
         /\ ui' = [ui EXCEPT !.keysHeld = @ \ {key}]
    /\ UNCHANGED <<physics, gameState>>

KeyNext == KeyFrame \/ KeyPress \/ KeyRelease \/ ClickPlay \/ ClickTryAgain

KeySpec == KeyInit /\ [][KeyNext]_vars

(***************************************************************************)
(* RestartSpec: games that end and start again while keys are held.  The   *)
(* player uses the forward key and the turn key Q; key events arrive on    *)
(* every screen and are ignored outside GAMEPLAY.  The draws are 0.999, so *)
(* that the wind, first drawn after 3 s, blows at its strongest.           *)
(***************************************************************************)
RestartMaxSteps == 4
RestartMaxFootsteps == 14
RestartMaxTurns == 6
RestartKeys == {"up", "q"}

RestartFrame ==
    GameplayFrame(PlatformDts, PlatformRands, RestartMaxSteps, MaxIdleTicks,
                  RestartMaxFootsteps, RestartMaxTurns)

RestartKeyDown ==
    /\ \E key \in RestartKeys :
         character' = handleKeyDown(gameState, character, key)
    /\ UNCHANGED <<physics, gameState, ui>>

RestartKeyUp ==
    /\ \E key \in RestartKeys :
         character' = handleKeyUp(gameState, character, key)
    /\ UNCHANGED <<physics, gameState, ui>>

RestartNext ==
    RestartFrame \/ RestartKeyDown \/ RestartKeyUp \/ ClickPlay \/ ClickTryAgain

RestartSpec == Init /\ [][RestartNext]_vars

(***************************************************************************)
(* CameraSpec: the game with its CameraController.  The ui record also     *)
(* holds the camera's enableMouseControls flag, whether a follow target is *)
(* set, and the setTimeout() callbacks that are pending, each with the     *)
(* time left until it is due.  The frames carry the time: a frame of dt    *)
(* brings every pending callback dt nearer, on every screen, and a         *)
(* callback runs when it is due, before the next frame.  The player walks  *)
(* onto the rope and leans; every random draw is 0.5.                      *)
(***************************************************************************)
gameplayPositionDelay == 3000
mouseControlsDelay == 2000
CameraMaxSteps == 2

NewCamera == [enableMouseControls |-> FALSE, followTarget |-> FALSE, timers |-> {}]

\* setTimeout(callback, delay)
setTimeout(u, callback, delay) ==
    [u EXCEPT !.timers = @ \cup {[callback |-> callback, remaining |-> delay]}]

\* CameraController.animateToGameplayPosition(), the character and the
\* environment being set: the platform focus, and the first delayed callback
animateToGameplayPosition(u) == setTimeout(u, "gameplayPosition", gameplayPositionDelay)

\* CameraController.animateToStartPosition()
animateToStartPosition(u) == [u EXCEPT !.enableMouseControls = FALSE]

\* the two callbacks of animateToGameplayPosition(): the outer one sets the
\* follow target and starts the inner one, which enables the mouse controls
timerCallback(u, callback) ==
    IF callback = "gameplayPosition"
    THEN setTimeout([u EXCEPT !.followTarget = TRUE],
                    "mouseControls", mouseControlsDelay)
    ELSE [u EXCEPT !.enableMouseControls = TRUE]

\* Game.toggleCameraMode()
toggleCameraMode(u) ==
    IF u.enableMouseControls
    THEN [u EXCEPT !.enableMouseControls = FALSE, !.followTarget = TRUE]
    ELSE [u EXCEPT !.enableMouseControls = TRUE, !.followTarget = FALSE]

CameraInit ==
    /\ character = LoadedCharacter
    /\ physics = NewPhysics
    /\ gameState = changeState([currentState |-> "NONE", previousState |-> "NONE"],
                               "START_SCREEN")
    /\ ui = onGameStateChange([startScreen |-> FALSE, gameplayUI |-> FALSE,
                               endScreen |-> FALSE, endMessage |-> "",
                               enableMouseControls |-> NewCamera.enableMouseControls,
                               followTarget |-> NewCamera.followTarget,
                               timers |-> NewCamera.timers],
                              "START_SCREEN")

\* Game.update() with clock.getDelta() = dt, no callback being due
CameraFrame ==
    /\ \A t \in ui.timers : t.remaining > 0
    /\ \E dt \in WinDts :
         \E rs \in DrawFrom(WinRands, mayStartStep(character)) :
           \E out \in {gameUpdate(gameState, ui, character, physics,
                                   dt, 500, 500, rs, 500, 500)} :
             /\ withinCaps(out.character, CameraMaxSteps, MaxIdleTicks,
                           MaxFootsteps, MaxTurns)
             /\ physics' = out.physics
             /\ character' = out.character
             /\ gameState' = out.gameState
             /\ ui' = [out.ui EXCEPT !.timers =
                         {[t EXCEPT !.remaining = Max(0, @ - dt)] : t \in @}]

\* a setTimeout() callback that is due runs
CameraTimer ==
    /\ \E t \in ui.timers :
         /\ t.remaining = 0
         /\ ui' = timerCallback([ui EXCEPT !.timers = @ \ {t}], t.callback)
    /\ UNCHANGED <<character, physics, gameState>>

\* the play button of the start screen
CameraClickPlay ==
    /\ ui.startScreen
    /\ gameState' = changeState(gameState, "GAMEPLAY")
    /\ ui' = animateToGameplayPosition(
                [notified(gameState, ui, "GAMEPLAY") EXCEPT
                    !.startScreen = FALSE, !.gameplayUI = TRUE])
    /\ UNCHANGED <<character, physics>>

\* the try-again button of the end screen
CameraClickTryAgain ==
    /\ ui.endScreen
    /\ gameState' = changeState(gameState, "START_SCREEN")
    /\ ui' = animateToStartPosition(
                [notified(gameState, ui, "START_SCREEN") EXCEPT
                    !.endScreen = FALSE, !.gameplayUI = FALSE, !.startScreen = TRUE])
    /\ character' = resetPosition(character)
    /\ UNCHANGED physics

\* the C key during the game
CameraToggle ==
    /\ gameState.currentState = "GAMEPLAY"
    /\ ui' = toggleCameraMode(ui)
    /\ UNCHANGED <<character, physics, gameState>>

CameraNext ==
    \/ CameraFrame \/ CameraTimer \/ CameraClickPlay \/ CameraClickTryAgain
    \/ CameraToggle \/ ScreenKeyDown \/ ScreenKeyUp

CameraSpec == CameraInit /\ [][CameraNext]_vars

(***************************************************************************)
(* CrossSpec: one game, from the start screen to its end, with the forward *)
(* key and the lean key and every random draw 0.5, as in WinSpec but       *)
(* without a replay.  The frame loop runs for ever: the frame is weakly    *)
(* fair, its enabling condition written out as in RecoverSpec.             *)
(***************************************************************************)
CrossNext == WinFrame \/ WinKeyDown \/ WinKeyUp \/ ClickPlay

\* a frame can be taken: the game is on and the caps leave room for it
CrossFrameCanRun ==
    /\ gameState.currentState = "GAMEPLAY"
    /\ \E dt \in WinDts : \E r \in WinRands :
         withinCaps(gameUpdate(gameState, ui, character, physics,
                               dt, r, r, r, r, r).character,
                    WinMaxSteps, MaxIdleTicks, MaxFootsteps, MaxTurns)

\* requestAnimationFrame keeps calling Game.update()
CrossFairness ==
    []<>(~CrossFrameCanRun) \/ []<><<WinFrame>>_vars

CrossSpec == Init /\ [][CrossNext]_vars /\ CrossFairness

(***************************************************************************)
(* C1.  Once the character is FALLING on the rope, every method call other *)
(* than resetPosition() leaves it FALLING on the rope: the state is not    *)
(* rewritten, no step starts or advances (the rope position and the step   *)
(* count stay as they are), and the avatar is not moved to the end         *)
(* platform.                                                               *)
(***************************************************************************)
FallingOnRope == character.state = "FALLING" /\ ~character.isOnPlatform

\* C1: a call other than resetPosition() leaves a FALLING avatar FALLING on
\* the rope, with its rope position, step in flight and step count untouched
FallingIsAbsorbing ==
    [][(FallingOnRope /\ character' # resetPosition(character))
       => /\ character'.state = "FALLING"
          /\ ~character'.isOnPlatform
          /\ character'.position = character.position
          /\ character'.takingStep = character.takingStep
          /\ character'.totalStepsTaken = character.totalStepsTaken]_vars

(***************************************************************************)
(* C2.  The try-again click, through resetPosition(), leaves the avatar    *)
(* fully restored: on a platform, IDLE, balance 0, rope position 0, no     *)
(* steps counted and balance difficulty 1.                                 *)
(***************************************************************************)
FullyRestored ==
    /\ character.isOnPlatform
    /\ character.state = "IDLE"
    /\ character.balance = 0
    /\ character.position = 0
    /\ character.totalStepsTaken = 0
    /\ character.balanceDifficulty = 1000

\* C2: the try-again click leaves the avatar fully restored
ResetRestoresEverything == [][ClickTryAgain => FullyRestored']_vars

FrameStep == physics' # physics

\* C4: after a frame on the rope, |balance| > 0.8 means FALLING and END_SCREEN,
\* |balance| <= 0.8 means not FALLING and GAMEPLAY
FallCheckDecides ==
    [][FrameStep =>
         /\ (~character'.isOnPlatform /\ Abs(character'.balance) > balanceThreshold)
            => /\ ~checkBalanceResult(character')
               /\ character'.state = "FALLING"
               /\ gameState'.currentState = "END_SCREEN"
         /\ (~character'.isOnPlatform /\ Abs(character'.balance) <= balanceThreshold)
            => /\ checkBalanceResult(character')
               /\ character'.state # "FALLING"
               /\ gameState'.currentState = "GAMEPLAY"]_vars

\* the fall check has ended the game with a step in flight
FellDuringStep ==
    /\ ~character.isOnPlatform
    /\ character.takingStep
    /\ Abs(character.balance) > balanceThreshold
    /\ Abs(character.balance) <= 900
    /\ character.state = "FALLING"
    /\ gameState.currentState = "END_SCREEN"

(***************************************************************************)
(* C5 as stated.  With forward held from rope position 0, the avatar is    *)
(* moved to the end platform only once its 33rd step has completed: on     *)
(* arrival the timer of that step has reached stepTime.                    *)
(***************************************************************************)
OnEndPlatform == character.isOnPlatform /\ character.position = 10000

\* C5 as stated: on arrival the 33rd step has run for stepTime
ArrivesAfter33CompletedSteps == OnEndPlatform => character.stepTimer >= stepTime

(***************************************************************************)
(* C5, amended.  With forward held from rope position 0, the update that   *)
(* moves the avatar to the end platform runs during the 33rd step: 32      *)
(* steps have completed (the step in flight starts at 32 * stepDistance),  *)
(* the 33rd has been started and has not yet run for stepTime.             *)
(***************************************************************************)
ArrivesDuringStep33 ==
    [][(~character.isOnPlatform /\ character'.isOnPlatform)
       => /\ character.takingStep
          /\ character.totalStepsTaken = 33
          /\ character.stepStartPosition = 32 * stepDistance
          /\ character.stepTargetPosition = 33 * stepDistance
          /\ character.stepTimer < stepTime
          /\ character'.position = 10000]_vars

\* the avatar has arrived 0.3 s into its 33rd step
ArrivedMidStep ==
    /\ OnEndPlatform
    /\ character.stepStartPosition = 32 * stepDistance
    /\ character.stepTimer = 300

(***************************************************************************)
(* The gate of C6 and C7 at the place and facing of the avatar: distance   *)
(* to the rope's near anchor < 1.0, or < 2.5 with the facing within 45     *)
(* degrees of the direction to the anchor.                                 *)
(***************************************************************************)
InGate(c) ==
    LET distance == Dist(c.platformPosition, ropeStartPoint)
    IN  distance < 100 \/ (distance < 250 /\ FacingDot(c) > 707)

\* beyond the reduced radius of the start platform, inside the rope opening,
\* less than 3.0 from the anchor and facing within acos(0.3) of the rope
InOpeningEntry(c) ==
    LET pp == c.platformPosition
        dx == pp.x - startPlatformPosition.x
        dz == pp.z - startPlatformPosition.z
        distanceFromCenter == Rsqrt(dx * dx + dz * dz)
        ropeDir == UnitVector(startPlatformPosition, ropeStartPoint)
        inOpening == RDiv(RDiv(1000 * dx, distanceFromCenter) * ropeDir.x
                          + RDiv(1000 * dz, distanceFromCenter) * ropeDir.z, 1000)
                     > 965
        towardRope == RDiv(Sin(c.facingDirection) * ropeDir.x
                           + Cos(c.facingDirection) * ropeDir.z, 1000) > 300
    IN  /\ distanceFromCenter > platformRadius - charWidth \div 2
        /\ inOpening
        /\ towardRope
        /\ Dist(pp, ropeStartPoint) < 300

\* the update just made has put the avatar on the rope
JustEnteredRope ==
    /\ ~character.isOnPlatform
    /\ character.takingStep
    /\ character.stepTimer = 0
    /\ character.position = 0

(***************************************************************************)
(* C6 as stated.  An update switches the avatar from the platform to the   *)
(* rope only with the forward key held and the avatar, where the update    *)
(* has moved it, inside the gate.                                          *)
(***************************************************************************)
SwitchOnlyThroughGate ==
    [][(character.isOnPlatform /\ ~character'.isOnPlatform)
       => /\ character.platformMovement.forward
          /\ InGate(character')]_vars

(***************************************************************************)
(* C6, amended.  An update switches the avatar from the platform to the    *)
(* rope only with the forward key held and the avatar, where the update    *)
(* has moved it, either inside the gate or beyond the platform edge in the *)
(* rope opening, less than 3.0 from the anchor and facing the rope side.   *)
(***************************************************************************)
SwitchOnlyThroughGateOrOpening ==
    [][(character.isOnPlatform /\ ~character'.isOnPlatform)
       => /\ character.platformMovement.forward
          /\ (InGate(character') \/ InOpeningEntry(character'))
          /\ Dist(character'.platformPosition, ropeStartPoint) < 300]_vars

\* the avatar has entered the rope through the opening from outside the gate
EnteredThroughOpening ==
    /\ JustEnteredRope
    /\ ~InGate(character)
    /\ InOpeningEntry(character)

(***************************************************************************)
(* C7.  An update made on the platform with the forward key held does not  *)
(* leave the avatar on the platform inside the gate: if the place it has   *)
(* moved the avatar to is inside the gate, it has switched to the rope.    *)
(***************************************************************************)
GateSwitchesInSameUpdate ==
    [][(GateUpdate /\ character.isOnPlatform /\ character.platformMovement.forward
        /\ character'.isOnPlatform)
       => ~InGate(character')]_vars

\* the avatar has entered the rope less than 1.0 from the anchor while facing
\* more than 45 degrees away from it
EnteredFacingAway ==
    /\ JustEnteredRope
    /\ Dist(character.platformPosition, ropeStartPoint) < 100
    /\ FacingDot(character) <= 707

(***************************************************************************)
(* C8 as stated.  The update that switches the avatar from the platform to *)
(* the rope leaves it WALKING on the rope at rope position 0 with balance  *)
(* exactly 0 and one fresh step, from 0 towards stepDistance, in flight.   *)
(***************************************************************************)
EntersRopeWithZeroBalance ==
    [][(character.isOnPlatform /\ ~character'.isOnPlatform)
       => /\ character'.state = "WALKING"
          /\ character'.position = 0
          /\ character'.balance = 0
          /\ character'.takingStep
          /\ character'.stepTimer = 0
          /\ character'.stepStartPosition = 0
          /\ character'.stepTargetPosition = stepDistance]_vars

(***************************************************************************)
(* C8, amended.  The update that switches the avatar from the platform to  *)
(* the rope leaves it WALKING on the rope at rope position 0 with one      *)
(* fresh step, from 0 towards stepDistance, in flight and counted, whatever *)
(* step was marked in flight before; the balance is the start disturbance  *)
(* of that step, at most movementBalanceEffect * balanceDifficulty *       *)
(* (0.5 + 0.2 * |windEffect|) in size.                                     *)
(***************************************************************************)
EntersRopeWithFreshStep ==
    [][(character.isOnPlatform /\ ~character'.isOnPlatform)
       => /\ character'.state = "WALKING"
          /\ character'.position = 0
          /\ Abs(character'.balance)
               <= RDiv(movementBalanceEffect * character.balanceDifficulty
                       * (500 + RDiv(Abs(character.windEffect) * 200, 1000)),
                       1000000)
          /\ character'.takingStep
          /\ character'.stepTimer = 0
          /\ character'.stepStartPosition = 0
          /\ character'.stepTargetPosition = stepDistance
          /\ character'.totalStepsTaken = character.totalStepsTaken + 1]_vars

\* the avatar has entered the rope a second time, after a reset, and the step
\* started by the entry has disturbed the balance
ReenteredRopeDisturbed ==
    /\ ~character.isOnPlatform
    /\ character.position = 0
    /\ character.takingStep
    /\ character.stepTimer = 0
    /\ character.totalStepsTaken = 2
    /\ character.balance = 50

(***************************************************************************)
(* C9.  An update on the rope that brings the rope position to 0.98 or     *)
(* more leaves the avatar on the far platform, IDLE, at rope position 1,   *)
(* with balance 0, lean force 0, forward intent cleared, no step in        *)
(* flight, no steps counted and balance difficulty 1.                      *)
(***************************************************************************)
OnFarPlatform ==
    /\ character.isOnPlatform
    /\ DistSq(character.platformPosition, endPlatformPosition)
         < DistSq(character.platformPosition, startPlatformPosition)
    /\ Dist(character.platformPosition, endPlatformPosition)
         <= platformRadius - charWidth \div 2

ArrivedAndReset ==
    /\ OnFarPlatform
    /\ character.state = "IDLE"
    /\ character.position = 10000
    /\ character.balance = 0
    /\ character.balanceForce = 0
    /\ ~character.isMovingForward
    /\ ~character.takingStep
    /\ character.totalStepsTaken = 0
    /\ character.balanceDifficulty = 1000

\* C9: an update on the rope that ends at rope position >= 0.98 ends with the
\* avatar arrived and reset
ArrivalResetsTheAvatar ==
    [][(~character.isOnPlatform /\ character'.position >= EndThreshold)
       => ArrivedAndReset']_vars

\* the avatar has arrived with the frame that completed its 33rd step
ArrivedOnStepCompletion ==
    /\ ArrivedAndReset
    /\ character.stepStartPosition = 32 * stepDistance
    /\ character.stepTimer >= stepTime

(***************************************************************************)
(* C10.  While the avatar stays on the rope with a step in flight, a call  *)
(* either leaves the start and the target of that step and the step count  *)
(* as they are, or it has completed that step (the rope position is its    *)
(* target) and started the next one from there, counted once.              *)
(***************************************************************************)
OneStepInFlight ==
    [][(~character.isOnPlatform /\ character.takingStep /\ ~character'.isOnPlatform)
       => \/ /\ character'.stepStartPosition = character.stepStartPosition
             /\ character'.stepTargetPosition = character.stepTargetPosition
             /\ character'.totalStepsTaken = character.totalStepsTaken
          \/ /\ character'.takingStep
             /\ character'.stepTimer = 0
             /\ character'.position = character.stepTargetPosition
             /\ character'.stepStartPosition = character.stepTargetPosition
             /\ character'.totalStepsTaken = character.totalStepsTaken + 1]_vars

\* the second step is half way, forward still held
SecondStepHalfWay ==
    /\ ~character.isOnPlatform
    /\ character.isMovingForward
    /\ character.takingStep
    /\ character.stepTimer = 250
    /\ character.stepStartPosition = stepDistance
    /\ character.stepTargetPosition = 2 * stepDistance
    /\ character.totalStepsTaken = 2

(***************************************************************************)
(* C11.  balanceDifficulty lies in [1, maxBalanceDifficulty]; it is 1      *)
(* while totalStepsTaken <= 5; and a call that counts a step never lowers  *)
(* it and raises it by at most 0.2, never past the target                  *)
(* 1 + min(3, 3 * steps / 20).                                             *)
(***************************************************************************)
DifficultyTarget(steps) ==
    1000 + Min(maxBalanceDifficulty - 1000,
               RDiv(steps * (maxBalanceDifficulty - 1000), 20))

DifficultyInRange ==
    /\ character.balanceDifficulty >= 1000
    /\ character.balanceDifficulty <= maxBalanceDifficulty
    /\ (character.totalStepsTaken <= 5 => character.balanceDifficulty = 1000)

\* C11: the range of the difficulty and its ramp, one step at a time
DifficultyRampsSlowly ==
    /\ []DifficultyInRange
    /\ [][character'.totalStepsTaken = character.totalStepsTaken + 1
          => /\ character'.balanceDifficulty >= character.balanceDifficulty
             /\ character'.balanceDifficulty <= character.balanceDifficulty + 200
             /\ character'.balanceDifficulty
                  <= DifficultyTarget(character'.totalStepsTaken)]_vars

\* the 20th step has started and the difficulty has reached its maximum
DifficultyAtMaximum ==
    /\ ~character.isOnPlatform
    /\ character.takingStep
    /\ character.totalStepsTaken = 20
    /\ character.balanceDifficulty = maxBalanceDifficulty

(***************************************************************************)
(* C12.  On the rope the difficulty is lowered only in a frame by whose    *)
(* end the avatar has stood, with no step in flight, for more than 2 s     *)
(* since its last step ended.                                              *)
(***************************************************************************)
\* the time stood since the last step ended, on the rope with no step in
\* flight: stepTimer runs from the start of that step, which took stepTime, and
\* the frame that completed it added its delta a second time
StoodFor == character.stepTimer - (stepTime + IdleDt)

\* C12: no decay before 2 s of standing
DecayOnlyAfterTwoSeconds ==
    [][(~character.isOnPlatform /\ ~character'.isOnPlatform
        /\ character'.balanceDifficulty < character.balanceDifficulty)
       => /\ ~character'.takingStep
          /\ StoodFor' > 2000]_vars

(***************************************************************************)
(* C13.  A gameplay frame in which the avatar arrives on the end platform  *)
(* from the rope ends in END_SCREEN showing "You made it across!", and the *)
(* end screen is shown with that message only by such a frame.             *)
(***************************************************************************)
WinShown ==
    /\ gameState.currentState = "END_SCREEN"
    /\ ui.endScreen
    /\ ui.endMessage = "You made it across!"

ArrivalStep ==
    /\ gameState.currentState = "GAMEPLAY"
    /\ ~character.isOnPlatform
    /\ character'.isOnPlatform
    /\ character'.position >= EndThreshold

\* C13: the win is declared in the frame of the arrival and in no other step
WinExactlyOnArrival ==
    [][/\ ArrivalStep => WinShown'
       /\ (WinShown' /\ ~WinShown) => ArrivalStep]_vars

\* the win is shown with the avatar on the far platform after its 33 steps
WonAcrossTheRope ==
    /\ WinShown
    /\ OnFarPlatform
    /\ character.stepStartPosition = 32 * stepDistance

(***************************************************************************)
(* C14.  changeState(newState) succeeds exactly when currentState is null  *)
(* or newState is listed for currentState; a success sets currentState and *)
(* previousState and notifies the listener once, a failure changes nothing *)
(* and notifies no listener; no state may follow itself.                   *)
(***************************************************************************)
Listed(newState) ==
    \/ gameState.currentState = "NONE"
    \/ newState \in validTransitions(gameState.currentState)

\* what the listener record shows besides the last call
Shown(u) == <<u.startScreen, u.gameplayUI, u.endScreen, u.endMessage, u.calls>>

\* C14: every call of changeState() behaves as the transition table says
ChangeStateContract ==
    [][\A newState \in StateNames :
         ui'.argument = newState =>
           /\ ui'.returned = Listed(newState)
           /\ Listed(newState) =>
                /\ gameState'.currentState = newState
                /\ gameState'.previousState = gameState.currentState
                /\ ui'.calls = ui.calls + 1
           /\ ~Listed(newState) =>
                /\ gameState' = gameState
                /\ Shown(ui') = Shown(ui)
           /\ (gameState.currentState = newState) => ~ui'.returned]_vars

\* END_SCREEN -> END_SCREEN was tried after three successful changes
SelfTransitionRejected ==
    /\ gameState.currentState = "END_SCREEN"
    /\ gameState.previousState = "GAMEPLAY"
    /\ ui.argument = "END_SCREEN"
    /\ ~ui.returned
    /\ ui.calls = 3

(***************************************************************************)
(* C15.  Whatever the order of frames, key events and clicks, the game     *)
(* state is one of START_SCREEN, GAMEPLAY and END_SCREEN and changes only  *)
(* along START_SCREEN -> GAMEPLAY -> END_SCREEN -> START_SCREEN.           *)
(***************************************************************************)
CycleStates == {"START_SCREEN", "GAMEPLAY", "END_SCREEN"}

CycleSteps ==
    {<<"START_SCREEN", "GAMEPLAY">>, <<"GAMEPLAY", "END_SCREEN">>,
     <<"END_SCREEN", "START_SCREEN">>}

\* C15: the state follows the cycle and PAUSED is never entered
StateFollowsTheCycle ==
    /\ [](gameState.currentState \in CycleStates)
    /\ [][gameState'.currentState # gameState.currentState =>
            <<gameState.currentState, gameState'.currentState>> \in CycleSteps]_vars

\* a second game is being played after the first one ended
PlayingAgain ==
    /\ gameState.currentState = "GAMEPLAY"
    /\ gameState.previousState = "START_SCREEN"
    /\ ui.endMessage # ""
    /\ ~character.isOnPlatform

(***************************************************************************)
(* C16.  Commands that do not apply to the current mode change nothing:    *)
(* adjustBalance on a platform, and the strafe, backward and rotate        *)
(* commands on the rope, leave mode, activity, balance, lean force, rope   *)
(* position and every intent flag as they were.                            *)
(***************************************************************************)
CommandState(c) ==
    <<c.isOnPlatform, c.state, c.balance, c.balanceForce, c.position,
      c.isMovingForward, c.platformMovement>>

LeanDirections == {-1, 0, 1}

\* C16 as stated: in every state each irrelevant command is a no-op
IrrelevantCommandsChangeNothing ==
    /\ character.isOnPlatform =>
         \A d \in LeanDirections :
           CommandState(adjustBalance(character, d)) = CommandState(character)
    /\ ~character.isOnPlatform =>
         \A name \in {"moveLeft", "moveRight", "moveBackward",
                      "rotateLeft", "rotateRight"} :
           CommandState(command(character, name)) = CommandState(character)

\* C16 amended: the lean command on a platform and the backward and rotate
\* commands on the rope change nothing; on the rope moveLeft and moveRight
\* are lean commands: they set the lean force to -1 and 1 and change
\* nothing else
OnlyStrafeLeansOnRope ==
    /\ character.isOnPlatform =>
         \A d \in LeanDirections : adjustBalance(character, d) = character
    /\ ~character.isOnPlatform =>
         /\ \A name \in {"moveBackward", "rotateLeft", "rotateRight"} :
              command(character, name) = character
         /\ moveLeft(character) = [character EXCEPT !.balanceForce = -1]
         /\ moveRight(character) = [character EXCEPT !.balanceForce = 1]

\* moveLeft() was called on the rope during the first step
StrafedOnRope ==
    /\ ~character.isOnPlatform
    /\ character.takingStep
    /\ character.balanceForce = -1
    /\ character.platformMovement = NoMovement

(***************************************************************************)
(* C17.  After every update that leaves the avatar on the rope and not     *)
(* FALLING, the activity is WALKING if a step is in flight, otherwise IDLE *)
(* when |balance| <= 0.5 and BALANCING when |balance| > 0.5.               *)
(***************************************************************************)
ActivityOf(c) ==
    IF c.takingStep THEN "WALKING"
    ELSE IF Abs(c.balance) <= 500 THEN "IDLE" ELSE "BALANCING"

\* the step is a call of update() on the rope
RopeUpdateStep ==
    /\ ~character.isOnPlatform
    /\ \E dt \in CharDts :
         \E rs \in DrawFrom(CharRands, mayStartStep(character)) :
           \E rw \in DrawFrom(CharRands, mayWobble(character)) :
             \E rn \in DrawFrom(CharRands, mayNoise(character, dt)) :
               character' = update(character, dt, rs, rw, rn)

StepCompletes ==
    /\ ~character.isOnPlatform
    /\ character.takingStep
    /\ character'.position = character.stepTargetPosition

\* a new step is put in flight in this step of the model
StepStarts ==
    /\ ~character'.isOnPlatform
    /\ character'.takingStep
    /\ character'.stepTimer = 0
    /\ \/ character.isOnPlatform
       \/ ~character.takingStep
       \/ character.stepTimer # 0
       \/ character'.stepStartPosition # character.stepStartPosition

QuietUpdate ==
    /\ character.balanceForce = 0
    /\ character.windEffect = 0
    /\ character'.balanceNoiseTimer # 0

\* the disturbance startNewStep() adds for the random draw r
StartDisturbance(r) ==
    RDiv(movementBalanceEffect * character.balanceDifficulty * (r - 500), 1000000)

\* the balance b after the recovery of an update that began without a step
\* in flight
Recovered(b) ==
    IF Abs(b) > 100 THEN b - Sign(b) * RDiv(balanceRecoveryRate * CharDt, 1000) ELSE b

IntentFlags(c) == <<c.platformMovement, c.isMovingForward, c.balanceForce>>

\* mode, balance and place of the avatar
Body(c) ==
    <<c.isOnPlatform, c.balance, c.position, c.platformPosition, c.facingDirection>>

\* the step is a call of one of the input commands
CommandStep ==
    \/ \E name \in CommandNames : character' = command(character, name)
    \/ \E d \in LeanDirections : character' = adjustBalance(character, d)

\* the step is a call of update()
UpdateStep ==
    \E dt \in CommandDts :
      \E rs \in DrawFrom(CommandRands, mayStartStep(character)) :
        \E rw \in DrawFrom(CommandRands, mayWobble(character)) :
          \E rn \in DrawFrom(CommandRands, mayNoise(character, dt)) :
            character' = update(character, dt, rs, rw, rn)

\* C19 as stated
OnlyCommandsWriteOnlyIntents ==
    [][/\ CommandStep =>
            /\ Body(character') = Body(character)
            /\ character'.state = character.state
       /\ UpdateStep => IntentFlags(character') = IntentFlags(character)]_vars

\* C19 amended: a command never changes mode, balance or place, but besides
\* intent flags it may set the activity: WALKING or IDLE on a platform
\* according to whether a movement key is held, BALANCING on the rope when
\* forward is released with no step in flight.  update() writes intent flags
\* only in its transitions: the switch to the rope clears the platform
\* movement flags and sets isMovingForward, the arrival on the end platform
\* clears isMovingForward and the lean force.
CommandsSetActivityTransitionsSetIntents ==
    [][/\ CommandStep =>
            /\ Body(character') = Body(character)
            /\ character'.state # character.state =>
                 \/ /\ character.isOnPlatform
                    /\ character'.state =
                         IF isAnyMovementKeyPressed(character')
                         THEN "WALKING" ELSE "IDLE"
                 \/ /\ ~character.isOnPlatform
                    /\ ~character.takingStep
                    /\ ~character'.isMovingForward
                    /\ character'.state = "BALANCING"
       /\ (UpdateStep /\ IntentFlags(character') # IntentFlags(character)) =>
            \/ /\ character.isOnPlatform
               /\ ~character'.isOnPlatform
               /\ character'.platformMovement = NoMovement
               /\ character'.isMovingForward
               /\ character'.balanceForce = character.balanceForce
            \/ /\ ~character.isOnPlatform
               /\ character'.isOnPlatform
               /\ character'.platformMovement = character.platformMovement
               /\ ~character'.isMovingForward
               /\ character'.balanceForce = 0]_vars

\* the switch to the rope has just rewritten the intent flags: the forward
\* flag of the platform, which was held, is cleared and isMovingForward set
FlagsRewrittenOnEntry ==
    /\ ~character.isOnPlatform
    /\ character.position = 0
    /\ character.takingStep
    /\ character.stepTimer = 0
    /\ character.totalStepsTaken = 1
    /\ character.isMovingForward
    /\ character.platformMovement = NoMovement

(***************************************************************************)
(* C20.  With the rope or the platform positions missing, update() on the  *)
(* platform with movement intents, with its boundary constraint, rope      *)
(* proximity check and transitions, raises no error and leaves the place   *)
(* of the avatar, its mode and its activity unchanged.                     *)
(***************************************************************************)
AnchorsMissing == ~character.rope \/ character.environment # "loaded"

\* the step is a call of update() with a movement or rotation flag set
MovingUpdateStep ==
    /\ character.platformMovement # NoMovement
    /\ \E dt \in CommandDts : character' = update(character, dt, 500, 500, 500)

\* C20 as stated
NoAnchorsNoMovement ==
    [][(AnchorsMissing /\ MovingUpdateStep) =>
         /\ ~character'.error
         /\ character'.platformPosition = character.platformPosition
         /\ character'.position = character.position
         /\ character'.isOnPlatform = character.isOnPlatform
         /\ character'.state = character.state]_vars

(***************************************************************************)
(* C21.  The avatar falls only on the rope: while it is on a platform no   *)
(* gameplay frame changes its balance or puts it into FALLING, and the     *)
(* game never ends with "You fell!" for an avatar on a platform.           *)
(***************************************************************************)
FellOnPlatform ==
    /\ character.isOnPlatform
    /\ character.state = "FALLING"

\* C21 as stated
FallsOnlyOnRope ==
    /\ [](~FellOnPlatform)
    /\ [][(gameState.currentState = "GAMEPLAY" /\ character.isOnPlatform
           /\ character'.isOnPlatform)
          => character'.balance = character.balance]_vars

(***************************************************************************)
(* C22.  A step is in flight only on the rope: the avatar is never on a    *)
(* platform with takingStep set, whether it got there by arriving at the   *)
(* end platform or by resetPosition().                                     *)
(***************************************************************************)
StepInFlightOnlyOnRope == character.takingStep => ~character.isOnPlatform

(***************************************************************************)
(* C23.  When a step completes in an update with the forward key still     *)
(* held and the position below 0.98, the next step is started in that same *)
(* update: the update ends with a step in flight, begun at the place the   *)
(* completed one ended.                                                    *)
(***************************************************************************)
StepCompletesShortOfEnd ==
    /\ StepCompletes
    /\ character.position # character.stepTargetPosition
    /\ character.isMovingForward
    /\ character'.position < EndThreshold

StepsBackToBack ==
    [][StepCompletesShortOfEnd =>
          /\ ~character'.isOnPlatform
          /\ character'.takingStep
          /\ character'.stepTimer = 0
          /\ character'.stepStartPosition = character.stepTargetPosition
          /\ character'.stepTargetPosition > character.stepTargetPosition
          /\ character'.totalStepsTaken = character.totalStepsTaken + 1]_vars

\* the fourth step has just been started by the update that completed the
\* third
FourthStepFollowsThird ==
    /\ ~character.isOnPlatform
    /\ character.takingStep
    /\ character.stepTimer = 0
    /\ character.totalStepsTaken = 4
    /\ character.position = 3 * stepDistance
    /\ character.stepStartPosition = 3 * stepDistance

(***************************************************************************)
(* C24.  When a step completes in an update in which the forward key is no *)
(* longer held, and the avatar neither falls nor arrives, its activity     *)
(* after that update is BALANCING.                                         *)
(***************************************************************************)
StepCompletesReleased ==
    /\ StepCompletes
    /\ character.position # character.stepTargetPosition
    /\ ~character.isMovingForward
    /\ ~character'.isOnPlatform
    /\ character'.state # "FALLING"

AdvancesOnlyInGameplay ==
    [][gameState.currentState # "GAMEPLAY" =>
          \/ UNCHANGED <<character, physics, gameState, ui>>
          \/ ClickPlay
          \/ ClickTryAgain]_vars

\* the end screen after a fall in the middle of a step with the forward key
\* held and a wind blowing: a frame of the game would move the avatar
FrozenInMidStep ==
    /\ gameState.currentState = "END_SCREEN"
    /\ ~character.isOnPlatform
    /\ character.state = "FALLING"
    /\ character.takingStep
    /\ character.isMovingForward
    /\ physics.windForce > 0

(***************************************************************************)
(* C26.  The pole is held with two hands in every state on the rope; after *)
(* every update on a platform it is held with two hands if and only if the *)
(* avatar is near the rope or at the rope edge, and with one hand          *)
(* otherwise; after resetPosition() it is held with one hand.              *)
(***************************************************************************)
NearRopePlace(c) ==
    /\ Dist(c.platformPosition, ropeStartPoint) < nearRopeDistance + 100
    /\ FacingDot(c) > 500

RopeEdgePlace(c) ==
    \/ Dist(c.platformPosition, ropeStartPoint) < 250 /\ FacingDot(c) > 500
    \/ Dist(c.platformPosition, ropeStartPoint) < 100

PoleAsPlaced(c) ==
    /\ ~c.isOnPlatform => c.poleHoldMode = "TWO_HAND"
    /\ c.isOnPlatform =>
          c.poleHoldMode = (IF c.nearRope \/ c.onRopeEdge THEN "TWO_HAND"
                            ELSE "ONE_HAND")

\* the step is a call of update() on a platform
PlatformUpdateStep ==
    /\ character.isOnPlatform
    /\ \E dt \in CharDts :
         \E rs \in DrawFrom(CharRands, mayStartStep(character)) :
           character' = update(character, dt, rs, 500, 500)

PoleFollowsTheRope ==
    /\ [](PoleAsPlaced(character))
    /\ [][(PlatformUpdateStep /\ character'.isOnPlatform) =>
             /\ character'.nearRope = NearRopePlace(character')
             /\ character'.onRopeEdge = RopeEdgePlace(character')]_vars
    /\ [][character' = resetPosition(character) =>
             character'.poleHoldMode = "ONE_HAND"]_vars

\* back on the start platform after steps on the rope, the avatar has
\* walked up to the rope again and holds the pole with two hands
TwoHandsAgain ==
    /\ character.isOnPlatform
    /\ character.totalStepsTaken > 0
    /\ character.nearRope
    /\ character.poleHoldMode = "TWO_HAND"

(***************************************************************************)
(* C27.  After every update on a platform the avatar is within             *)
(* platformRadius - width / 2 of the center of its platform, measured      *)
(* horizontally, unless it stands in the opening of 15 degrees to either   *)
(* side of the direction of the rope anchor; outside the opening a         *)
(* movement past that boundary is clamped and never causes a transition to *)
(* the rope.  Distances are compared to the centimetre.                    *)
(***************************************************************************)
CurrentPlatform(p) ==
    IF DistSq(p, startPlatformPosition) < DistSq(p, endPlatformPosition)
    THEN startPlatformPosition ELSE endPlatformPosition

CenterDistance(p) ==
    LET dx == p.x - CurrentPlatform(p).x
        dz == p.z - CurrentPlatform(p).z
    IN  Rsqrt(dx * dx + dz * dz)

InRopeOpening(p) ==
    LET dx == p.x - CurrentPlatform(p).x
        dz == p.z - CurrentPlatform(p).z
        ropeDir == UnitVector(CurrentPlatform(p), ropeStartPoint)
    IN  RDiv(RDiv(1000 * dx, CenterDistance(p)) * ropeDir.x
             + RDiv(1000 * dz, CenterDistance(p)) * ropeDir.z, 1000) > 965

PastTheBoundary(p) ==
    /\ CenterDistance(p) > platformRadius - charWidth \div 2
    /\ ~InRopeOpening(p)

KeptOnPlatform(p) ==
    \/ CenterDistance(p) <= platformRadius - charWidth \div 2 + 1
    \/ InRopeOpening(p)

\* the step is a call of update(dt) on a platform
GateUpdateStep(dt) ==
    /\ character.isOnPlatform
    /\ \E rs \in DrawFrom(GateRands, mayStartStep(character)) :
         character' = update(character, dt, rs, 500, 500)

\* C27 as stated
BoundedByThePlatform ==
    [][\A dt \in GateDts :
         GateUpdateStep(dt) =>
           /\ character'.isOnPlatform => KeptOnPlatform(character'.platformPosition)
           /\ PastTheBoundary(platformStep(character, dt).platformPosition) =>
                 /\ character'.isOnPlatform
                 /\ Abs(CenterDistance(character'.platformPosition)
                        - (platformRadius - charWidth \div 2)) <= 1]_vars

\* C27 amended: the clamp is the work of constrainToPlatform(), which starts no
\* transition outside the opening; the update ends on the rope only when the
\* proximity check passes at the clamped place, with the forward key held
\* and the rope start within 2.5 m
ClampedByThePlatform ==
    [][\A dt \in GateDts :
         GateUpdateStep(dt) =>
           /\ character'.isOnPlatform => KeptOnPlatform(character'.platformPosition)
           /\ PastTheBoundary(platformStep(character, dt).platformPosition) =>
                 \E kept \in {constrainToPlatform(platformStep(character, dt), 999)} :
                   /\ kept.isOnPlatform
                   /\ Abs(CenterDistance(kept.platformPosition)
                          - (platformRadius - charWidth \div 2)) <= 1
                   /\ character'.platformPosition = kept.platformPosition
                   /\ ~character'.isOnPlatform =>
                         /\ character.platformMovement.forward
                         /\ Dist(kept.platformPosition, ropeStartPoint) < 250]_vars

\* the avatar has walked into the boundary beside the opening and stands
\* where it was set back to
SetBackToTheBoundary ==
    /\ character.isOnPlatform
    /\ character.state = "WALKING"
    /\ character.footstepCycle > 0
    /\ CenterDistance(character.platformPosition) >= platformRadius - charWidth \div 2
    /\ ~InRopeOpening(character.platformPosition)

(***************************************************************************)
(* C28.  The wind force stays within 0 and maxWindForce and the wind       *)
(* direction within -1 and 1.  Both are drawn anew exactly in the frames   *)
(* in which the wind timer has accumulated windChangeFrequency, after      *)
(* which the timer is 0; in every other frame they are unchanged and the   *)
(* timer grows by the frame time.  The character plays no part in it.      *)
(***************************************************************************)
WindInRange ==
    /\ 0 <= physics.windForce /\ physics.windForce <= maxWindForce
    /\ -1000 <= physics.windDirection /\ physics.windDirection <= 1000
    /\ 0 <= physics.windTimer /\ physics.windTimer < windChangeFrequency

WindFrame(dt) ==
    IF physics.windTimer + dt >= windChangeFrequency
    THEN physics'.windTimer = 0
    ELSE /\ physics'.windTimer = physics.windTimer + dt
         /\ physics'.windForce = physics.windForce
         /\ physics'.windDirection = physics.windDirection

WindFollowsItsTimer ==
    /\ [](WindInRange)
    /\ [][physics' # physics =>
             /\ gameState.currentState = "GAMEPLAY"
             /\ \E dt \in Dts : WindFrame(dt)]_vars
    /\ [][(gameState.currentState = "GAMEPLAY" /\ physics' = physics) =>
             character' \in {keyDown(character, key) : key \in Keys}
                            \cup {keyUp(character, key) : key \in Keys}]_vars

\* the frame after a wind was drawn has kept it
WindKept ==
    /\ physics.windForce = maxWindForce
    /\ physics.windDirection = -1000
    /\ physics.windTimer = 500

(***************************************************************************)
(* C29.  Natural recovery.  On the rope with no step in flight, no lean,   *)
(* no wind and no noise, |balance| never increases from one frame to the   *)
(* next, the recovery opposes the sign of the balance and never carries it *)
(* past 0 to a larger magnitude, and the balance eventually reaches 0.     *)
(***************************************************************************)
QuietStanding ==
    /\ gameState.currentState = "GAMEPLAY"
    /\ ~character.isOnPlatform
    /\ ~character.takingStep
    /\ ~character.isMovingForward
    /\ character.balanceForce = 0
    /\ character.windEffect = 0

\* a frame of the game that begins in such a state and has no wind
QuietFrame ==
    /\ QuietStanding
    /\ physics' # physics
    /\ physics'.windForce * physics'.windDirection = 0

\* C29 as stated
NaturalRecovery ==
    /\ [][QuietFrame =>
             /\ Abs(character'.balance) <= Abs(character.balance)
             /\ (character'.balance - character.balance) * Sign(character.balance) <= 0]_vars
    /\ [](QuietStanding => <>(character.balance = 0 \/ ~QuietStanding))

\* the recovery of a frame of length dt: 0.7 * dt from update() beyond the
\* dead band, 0.1 * dt from applyForces() in the activities it acts on
UpdateRecovery(dt) == RDiv(balanceRecoveryRate * dt, 1000)

PhysicsRecovery(dt) ==
    IF character.state \in {"WALKING", "BALANCING"} /\ character.balance # 0
    THEN RDiv(physicsRecoveryRate * dt, 1000) ELSE 0

\* C29 amended: the balance moves against its sign, by 0.7 * dt when it is
\* beyond 0.1 (and 0.1 * dt more in the activity BALANCING); its magnitude
\* does not grow unless the frame is long enough to carry it past 0 by more
\* than it was; within 0.1, standing idle, it stays where it is
RecoveryDownToTheDeadBand ==
    [][QuietFrame =>
          \E dt \in {character'.stepTimer - character.stepTimer} :
            /\ dt \in RecoverDts
            /\ (character'.balance - character.balance) * Sign(character.balance) <= 0
            /\ Abs(character'.balance - character.balance)
                  <= UpdateRecovery(dt) + PhysicsRecovery(dt)
            /\ Abs(character.balance) > 100 + PhysicsRecovery(dt) =>
                  Abs(character'.balance - character.balance) >= UpdateRecovery(dt)
            /\ Abs(character'.balance - character.balance) <= 2 * Abs(character.balance)
                  => Abs(character'.balance) <= Abs(character.balance)
            /\ (Abs(character.balance) <= 100 /\ character.state = "IDLE") =>
                  character'.balance = character.balance]_vars

\* the avatar has stood for two seconds and its balance rests inside the
\* dead band, short of 0
RestingShortOfZero ==
    /\ QuietStanding
    /\ character.state = "IDLE"
    /\ character.balance # 0
    /\ Abs(character.balance) <= 100
    /\ character.stepTimer >= 2500

(***************************************************************************)
(* C30.  On every successful changeState() each registered listener is     *)
(* called exactly once, in the order of registration, with the new state   *)
(* and the previous state as the updated fields hold them; a rejected call *)
(* notifies nobody.  addStateChangeListener() ignores what is not a        *)
(* function and never registers a listener twice, and a removed listener   *)
(* is no longer called.                                                    *)
(***************************************************************************)
Registered == gameState.stateChangeListeners

\* only functions are registered, none of them twice
RegisteredOnce ==
    /\ \A i \in 1..Len(Registered) : Registered[i] \in Functions
    /\ \A i, j \in 1..Len(Registered) : Registered[i] = Registered[j] => i = j

\* the step is a call of changeState()
ChangeStateCall ==
    /\ gameState'.stateChangeListeners = Registered
    /\ <<gameState', ui'>> # <<gameState, ui>>

\* the number of calls listener l received in the last changeState()
CallsOf(l) == Cardinality({i \in 1..Len(ui'.notified) : ui'.notified[i].listener = l})

ListenersNotifiedInOrder ==
    /\ [](RegisteredOnce)
    /\ [][ChangeStateCall =>
             IF ui'.returned
             THEN /\ gameState'.currentState = ui'.argument
                  /\ gameState'.previousState = gameState.currentState
                  /\ Len(ui'.notified) = Len(Registered)
                  /\ \A i \in 1..Len(Registered) :
                        /\ ui'.notified[i].listener = Registered[i]
                        /\ ui'.notified[i].newState = gameState'.currentState
                        /\ ui'.notified[i].previousState = gameState'.previousState
                  /\ \A l \in ListenerArguments :
                        CallsOf(l) = IF includes(Registered, l) THEN 1 ELSE 0
             ELSE /\ ui'.notified = << >>
                  /\ gameState' = gameState]_vars
    /\ [][gameState'.stateChangeListeners # Registered =>
             \E l \in Functions :
               \/ /\ ~includes(Registered, l)
                  /\ gameState'.stateChangeListeners = Append(Registered, l)
               \/ /\ includes(Registered, l)
                  /\ ~includes(gameState'.stateChangeListeners, l)
                  /\ gameState'.stateChangeListeners
                        = SelectSeq(Registered, LAMBDA x : x # l)]_vars

\* h was registered first and g after it, and the game has just started:
\* h, then g, were told of it
ToldInOrder ==
    /\ Registered = <<"h", "g">>
    /\ gameState.currentState = "GAMEPLAY"
    /\ ui.returned
    /\ Len(ui.notified) = 2
    /\ ui.notified[1] = [listener |-> "h", newState |-> "GAMEPLAY",
                         previousState |-> "START_SCREEN"]
    /\ ui.notified[2].listener = "g"

(***************************************************************************)
(* C31.  After every update an avatar on the rope is short of the arrival  *)
(* threshold: rope position < 0.98.  The update in which the step in       *)
(* flight carries the position to 0.98 or beyond is the update that moves  *)
(* the avatar to the end platform.                                         *)
(***************************************************************************)
ShortOfTheThreshold ==
    ~character.isOnPlatform => character.position < EndThreshold

\* the step is update(dt) called for an avatar with a step in flight on the rope
SteppingUpdate(dt) ==
    /\ ~character.isOnPlatform
    /\ character.takingStep
    /\ \E rs \in DrawFrom(WalkRands, mayStartStep(character)) :
         \E rw \in DrawFrom(WalkRands, mayWobble(character)) :
           \E rn \in DrawFrom(WalkRands, mayNoise(character, dt)) :
             character' = update(character, dt, rs, rw, rn)

\* the rope position lines 992-993 compute for a frame of dt
SteppedPosition(c, dt) ==
    c.stepStartPosition
    + RDiv((c.stepTargetPosition - c.stepStartPosition)
           * easeInOutQuad(Min(1000, RDiv((c.stepTimer + dt) * 1000, stepTime))),
           1000)

\* C31: never on the rope at or beyond 0.98, the arrival being processed in
\* the update that carries the position there
NeverOnRopePastTheThreshold ==
    /\ [](ShortOfTheThreshold)
    /\ [][\A dt \in WalkDts :
            SteppingUpdate(dt) =>
              (character'.isOnPlatform
                 <=> SteppedPosition(character, dt) >= EndThreshold)]_vars

\* one frame of 0.5 s has carried the avatar from 0.96 across 0.98 to 0.99,
\* and the same update has put it on the end platform (the step completed,
\* so the timer was advanced a second time, as the timer of standing)
CrossedAndArrivedInOneUpdate ==
    /\ character.isOnPlatform
    /\ character.position = 10000
    /\ character.stepStartPosition = 32 * stepDistance
    /\ character.stepTimer = 2 * stepTime

(***************************************************************************)
(* C32.  A gameplay frame never reports both outcomes: no frame shows the  *)
(* end screen for a fall and also for a win, and once the game is in       *)
(* END_SCREEN no later frame (and no key event) changes the reported       *)
(* outcome.                                                                *)
(***************************************************************************)
\* the fall check of Game.update() (line 139) has fired on this character
FallReported == ~checkBalanceResult(character)

\* the win check of Game.update() (line 145) has fired on this character
WinReported == character.position >= EndThreshold /\ character.isOnPlatform

\* the step is a frame of Game.update() in GAMEPLAY
OutcomeFrame == gameState.currentState = "GAMEPLAY" /\ physics' # physics

\* C32: a frame reports at most one outcome, the message on the end screen
\* is that outcome, and nothing but Try Again touches it afterwards
OneOutcomePerGame ==
    /\ [][OutcomeFrame =>
             /\ ~(FallReported' /\ WinReported')
             /\ FallReported' => (ui'.endScreen /\ ui'.endMessage = "You fell!")
             /\ WinReported' =>
                   (ui'.endScreen /\ ui'.endMessage = "You made it across!")
             /\ (FallReported' \/ WinReported')
                   <=> gameState'.currentState = "END_SCREEN"]_vars
    /\ [][(gameState.currentState = "END_SCREEN" /\ ~ClickTryAgain) =>
             UNCHANGED <<gameState, ui>>]_vars

\* the avatar fell as its 32nd step ended, one frame short of the arrival:
\* the end screen reports the fall
FellOneFrameShortOfArrival ==
    /\ gameState.currentState = "END_SCREEN"
    /\ ui.endScreen
    /\ ui.endMessage = "You fell!"
    /\ ~character.isOnPlatform
    /\ character.position = 32 * stepDistance

(***************************************************************************)
(* C33.  While the avatar is on the rope its rope position never decreases *)
(* from one update to the next: no command moves it back, and each step    *)
(* moves the position monotonically from its start to its target,          *)
(* min(1, start + stepDistance).                                           *)
(***************************************************************************)
\* a step in flight on the rope lies between its start and its target
WithinTheStep ==
    (~character.isOnPlatform /\ character.takingStep) =>
       /\ character.stepTargetPosition
             = Min(10000, character.stepStartPosition + stepDistance)
       /\ character.stepStartPosition <= character.position
       /\ character.position <= character.stepTargetPosition

\* the step in flight has ended in this step of the model
StepEnded ==
    /\ character.takingStep
    /\ ~character'.takingStep \/ character'.totalStepsTaken # character.totalStepsTaken

\* C33: on the rope the position only grows, within the step in flight and
\* from a step to the next, and a step that ends on the rope ends on its target
RopePositionNeverDecreases ==
    /\ [](WithinTheStep)
    /\ [][(~character.isOnPlatform /\ ~character'.isOnPlatform) =>
             /\ character'.position >= character.position
             /\ StepEnded => character'.position = character.stepTargetPosition
             /\ \A name \in BackCommandNames :
                   character' = command(character, name)
                     => character'.position = character.position]_vars

\* strictly inside the second step, the forward command released: the step
\* goes on, and the backward command has nothing to act on
InsideTheSecondStep ==
    /\ ~character.isOnPlatform
    /\ character.takingStep
    /\ character.stepStartPosition = stepDistance
    /\ character.position > character.stepStartPosition
    /\ character.position < character.stepTargetPosition
    /\ ~character.isMovingForward

(***************************************************************************)
(* C34.  The lean force of the player (balanceForce) is 0 in every state   *)
(* with the avatar on a platform: arrival and reset clear it, no command   *)
(* sets it on a platform, and so the avatar enters the rope without a lean *)
(* left over.                                                              *)
(***************************************************************************)
LeanFreeOnPlatform == character.isOnPlatform => character.balanceForce = 0

\* C34: no lean force on a platform, and none in the state that enters the rope
NoLeanLeftOver ==
    /\ [](LeanFreeOnPlatform)
    /\ [][(character.isOnPlatform /\ ~character'.isOnPlatform)
             => character'.balanceForce = 0]_vars
    /\ [][(character.isOnPlatform /\ character'.isOnPlatform)
             => character'.balanceForce = character.balanceForce]_vars

\* back on the start platform by resetPosition(), called during the third
\* step on the rope
ResetFromTheThirdStep ==
    /\ character.isOnPlatform
    /\ character.position = 0
    /\ character.totalStepsTaken = 3
    /\ character.takingStep
    /\ character.balanceForce = 0

(***************************************************************************)
(* C35.  On the rope the lean force reflects the lean keys held: under any *)
(* interleaving of key-down and key-up events of the two lean keys,        *)
(* balanceForce is non-zero whenever exactly one lean key is held, and is  *)
(* 0 only when none is held or both are.                                   *)
(***************************************************************************)
ExactlyOneLeanKeyHeld == Cardinality(ui.keysHeld \cap LeanKeys) = 1

\* C35: during the game, on the rope, one lean key held means a lean force
LeanForceFollowsTheKeys ==
    (gameState.currentState = "GAMEPLAY" /\ ~character.isOnPlatform
       /\ ExactlyOneLeanKeyHeld)
      => character.balanceForce # 0

(***************************************************************************)
(* C36.  After a restart (Try Again, resetPosition) every intent flag is    *)
(* false, the two turn flags and the forward flag of the rope included,    *)
(* also when the key was held as the game ended and its key-up was ignored *)
(* on the end screen: the avatar neither moves nor turns in the next       *)
(* attempt until a key goes down.                                          *)
(***************************************************************************)
NoIntent(c) == c.platformMovement = NoMovement /\ ~c.isMovingForward

\* C36: Try Again leaves no intent flag set
RestartClearsEveryIntent == [][ClickTryAgain => NoIntent(character')]_vars

(***************************************************************************)
(* C37.  The mouse controls of the camera stay disabled throughout         *)
(* START_SCREEN: once the game is back on the start screen by Try Again,   *)
(* the delayed callbacks of animateToGameplayPosition() neither enable the *)
(* mouse controls nor set the follow target, whatever the order of clicks, *)
(* frames and callbacks.                                                   *)
(***************************************************************************)
BackOnStartScreen ==
    /\ gameState.currentState = "START_SCREEN"
    /\ gameState.previousState = "END_SCREEN"

\* C37: on the start screen the mouse controls are off, and on the start
\* screen reached by Try Again nothing sets the follow target
TimersRespectTheStartScreen ==
    /\ [](gameState.currentState = "START_SCREEN" => ~ui.enableMouseControls)
    /\ [][(BackOnStartScreen /\ BackOnStartScreen')
             => (ui'.followTarget = ui.followTarget
                 /\ ui'.enableMouseControls = ui.enableMouseControls)]_vars

(***************************************************************************)
(* C38.  Liveness.  If the avatar is on the rope, the forward intent stays *)
(* held, the frames keep arriving and the avatar never falls, then the     *)
(* avatar eventually arrives on the end platform and the game reaches      *)
(* END_SCREEN with a win.                                                  *)
(***************************************************************************)
WalkingTheRope ==
    /\ gameState.currentState = "GAMEPLAY"
    /\ ~character.isOnPlatform
    /\ character.isMovingForward

\* the forward intent was given up on the rope
ForwardReleased == ~character.isOnPlatform /\ ~character.isMovingForward

FallShown ==
    /\ gameState.currentState = "END_SCREEN"
    /\ ui.endScreen
    /\ ui.endMessage = "You fell!"

\* C38: an avatar walking the rope wins the game, unless the forward intent
\* is released or the avatar falls
ForwardHeldCrossesTheRope ==
    WalkingTheRope ~>
      ((WinShown /\ character.isOnPlatform /\ character.position = 10000)
       \/ ForwardReleased \/ FallShown)

\* the game is won, the avatar on the end platform, the game view put away
CrossedAndWon ==
    /\ WinShown
    /\ character.isOnPlatform
    /\ character.position = 10000
    /\ ~ui.gameplayUI

=============================================================================
